---------------------------- MODULE Spec2Model ----------------------------
(***************************************************************************)
(* Verification model of the mina-network-debugger capture pipeline:       *)
(*   - the multistream-select layer (mina-recorder, multistream_select.rs) *)
(*   - the user-space recorder loop (bpf-recorder, main.rs)                *)
(*   - the ring-buffer consumer (bpf-ring-buffer, lib.rs)                  *)
(* Bytes are naturals 0..255, strings are sequences of bytes, and an       *)
(* Option<T> is a sequence of length 0 (None) or 1 (Some).                 *)
(***************************************************************************)
EXTENDS Integers, Sequences, FiniteSets, TLC

VARIABLES
    \* multistream-select layer under test: State { error, stream, inner, hl }
    state,
    \* the same layer fed every message in a single on_data call
    whole,
    \* bytes of the current message not yet handed to on_data, and its direction
    pending,
    pending_incoming,
    \* chunks of the current message handed to on_data so far
    chunks,
    \* number of free messages written / regression messages written
    writes,
    script,
    \* the last on_data call on `state`: direction, chunk, accumulator before, output
    last,
    \* per direction: what the pass-through invariant expects the inner layer to hold
    expect,
    \* Some(direction) once a poll of that direction has returned a decoding error
    poisoned,
    \* main(): pid -> alias, (pid, fd) -> addr of recorded and of ignored connections
    apps,
    p2p_cns,
    ignored_cns,
    \* mina_recorder::P2pRecorder { cns, cx }
    recorder,
    \* every call main() has made on the recorder, in order
    calls,
    \* RingBuffer { mask, consumer_pos_value, last_reported_percent }
    rb,
    \* shared memory: the two position words and the observer_data area (word index ->
    \* the record whose header is stored there)
    producer_pos,
    consumer_pos,
    observer_data,
    \* every reservation of the producer, in ring order
    records,
    \* where main() is: "main", "read", "header", "wait", "terminated", "exited"
    pc,
    \* locals of RingBuffer::read: pr_pos, vec, read_total
    pr_pos,
    vec,
    read_total,
    \* the AtomicBool set by the Ctrl-C handler
    terminating,
    \* the status the process exited with, None while it runs
    exit_code,
    \* ids of the records handed to the decoder, in order
    decoded,
    \* the slices handed to from_rb_slice: where they start in the data pages
    \* and their length
    slices,
    \* what read_blocking last returned to main(): "Ok", "Empty", "Err"
    returned,
    \* App.pid: pid -> flags
    pid_flags,
    \* App.context_parameters: thread id -> context::Parameters { data, ts }
    context_parameters,
    \* App.connections: socket id -> 1
    connections,
    \* App.event_queue: the events committed to the ring, with their payloads
    event_queue,
    \* the syscall each thread is inside: thread id -> the syscall
    running,
    \* the value ktime_get_ns returns
    ktime,
    \* the handler that ran last and what it was called with
    last_handler,
    \* the scripted process of SpecSession
    session,
    \* the sockets <<fd, pid>> the traced processes have opened and not closed
    sockets,
    \* the scratch reservations of the handler that ran last, in the order it
    \* made them: the size asked for and "busy" or "discard"
    scratch,
    \* DbFacade.messages, the Arc<AtomicU64> every DbStream holds a clone of
    messages,
    \* the value stored under DbCore::MESSAGES_CNT
    total,
    \* the messages put in the database: MessageId -> the stream that put it
    db_messages,
    \* the DbStream::add call each stream's thread is in: where it is, the id
    \* it fetched, the result of its last call
    adds,
    \* the MessageIds handed out by fetch_add, in order
    assigned

selectVars == <<state, whole, pending, pending_incoming, chunks, writes, script, last, expect, poisoned>>

recorderVars == <<apps, p2p_cns, ignored_cns, recorder, calls>>

ringVars == <<rb, producer_pos, consumer_pos, observer_data, records, pc, pr_pos, vec,
              read_total, terminating, exit_code, decoded, slices, returned>>

probeVars == <<pid_flags, context_parameters, connections, event_queue, running, ktime, last_handler, session, sockets, scratch>>

dbVars == <<messages, total, db_messages, adds, assigned>>

vars == <<selectVars, recorderVars, ringVars, probeVars, dbVars>>

-----------------------------------------------------------------------------
(* Bounds of the model *)

\* free messages written to the layer in one behaviour
MaxWrites == 3
\* chunks one message may be split into
MaxChunks == 2
\* calls main() makes on the recorder in one behaviour
MaxCalls == 3
\* records the producer reserves in one behaviour
MaxRecords == 3
\* ticks of the kernel clock in one behaviour
MaxTime == 1
\* messages the streams add in one behaviour
MaxMessages == 3

-----------------------------------------------------------------------------
(* Byte-string helpers *)

None == <<>>
Some(x) == <<x>>
IsSome(o) == Len(o) = 1
Unwrap(o) == o[1]

StartsWith(s, p) == Len(s) >= Len(p) /\ SubSeq(s, 1, Len(p)) = p
Drain(s, n) == SubSeq(s, n + 1, Len(s))
Take(s, n) == SubSeq(s, 1, n)

\* a value larger than the length of every buffer of the model; stands for
\* every varint value too wide for the model's integers
Huge == 2^30

\* "\ninitiator\n" and "\nresponder\n"
INITIATOR_FRAME == <<10,105,110,105,116,105,97,116,111,114,10>>
RESPONDER_FRAME == <<10,114,101,115,112,111,110,100,101,114,10>>
\* "initiator" and "responder"
INITIATOR_STR == <<105,110,105,116,105,97,116,111,114>>
RESPONDER_STR == <<114,101,115,112,111,110,100,101,114>>
\* "/multistream/", "/libp2p/simultaneous-connect", "na", "select"
MULTISTREAM_PREFIX == <<47,109,117,108,116,105,115,116,114,101,97,109,47>>
SIMULTANEOUS_CONNECT_PREFIX ==
    <<47,108,105,98,112,50,112,47,115,105,109,117,108,116,97,110,101,111,117,115,
      45,99,111,110,110,101,99,116>>
NA_STR == <<110,97>>
SELECT_PREFIX == <<115,101,108,101,99,116>>
\* "/noise"
NOISE_STR == <<47,110,111,105,115,101>>

-----------------------------------------------------------------------------
(* ll: the low level parser *)

\* unsigned_varint::decode::usize: 7 bits per byte, least significant first,
\* the high bit continues; at most 10 bytes; a multi-byte encoding must not end
\* in a zero byte.  Values that do not fit the model's integers become Huge.
RECURSIVE DecodeFrom(_, _, _)
DecodeFrom(buf, i, n) ==
    IF i > Len(buf) THEN [ok |-> FALSE, value |-> 0, remaining |-> <<>>]
    ELSE LET b == buf[i]
             k == b % 128
             term == IF k = 0 THEN 0
                     ELSE IF i <= 4 THEN k * 128^(i - 1)
                     ELSE IF i = 10 /\ k % 2 = 0 THEN 0
                     ELSE Huge
             n2 == IF n + term >= Huge THEN Huge ELSE n + term
         IN  IF b < 128
             THEN IF b = 0 /\ i > 1
                  THEN [ok |-> FALSE, value |-> 0, remaining |-> <<>>]
                  ELSE [ok |-> TRUE, value |-> n2, remaining |-> Drain(buf, i)]
             ELSE IF i = 10
                  THEN [ok |-> FALSE, value |-> 0, remaining |-> <<>>]
                  ELSE DecodeFrom(buf, i + 1, n2)

DecodeUsize(buf) == DecodeFrom(buf, 1, 0)

\* str::from_utf8: well-formed UTF-8 (1 to 4 byte forms, no overlong forms,
\* no surrogates, nothing above U+10FFFF)
IsCont(b) == b >= 128 /\ b <= 191
RECURSIVE Utf8From(_, _)
Utf8From(msg, i) ==
    IF i > Len(msg) THEN TRUE
    ELSE LET b == msg[i]
             has(n) == i + n <= Len(msg)
             c(n) == msg[i + n]
         IN  IF b < 128 THEN Utf8From(msg, i + 1)
             ELSE IF b >= 194 /\ b <= 223
                  THEN has(1) /\ IsCont(c(1)) /\ Utf8From(msg, i + 2)
             ELSE IF b >= 224 /\ b <= 239
                  THEN /\ has(2) /\ IsCont(c(1)) /\ IsCont(c(2))
                       /\ (b = 224 => c(1) >= 160)
                       /\ (b = 237 => c(1) <= 159)
                       /\ Utf8From(msg, i + 3)
             ELSE IF b >= 240 /\ b <= 244
                  THEN /\ has(3) /\ IsCont(c(1)) /\ IsCont(c(2)) /\ IsCont(c(3))
                       /\ (b = 240 => c(1) >= 144)
                       /\ (b = 244 => c(1) <= 143)
                       /\ Utf8From(msg, i + 4)
             ELSE FALSE

IsUtf8(msg) == Utf8From(msg, 1)

\* str::trim_end_matches('\n')
RECURSIVE TrimEndNewlines(_)
TrimEndNewlines(s) ==
    IF Len(s) > 0 /\ s[Len(s)] = 10 THEN TrimEndNewlines(Take(s, Len(s) - 1)) ELSE s

\* ll::State::append
LLAppend(acc, bytes) == acc \o bytes

\* an end that forwards the bytes and leaves them in the accumulator
LLEndKeepsAcc(acc, bytes) ==
    IF acc = <<>>
    THEN [data |-> bytes, acc |-> acc]
    ELSE [data |-> acc \o bytes, acc |-> acc \o bytes]

\* ll::State::end: the forwarded data and the accumulator left behind
LLEnd(acc, bytes) ==
    IF acc = <<>>
    THEN [data |-> bytes, acc |-> acc]
    ELSE [data |-> acc \o bytes, acc |-> <<>>]

\* a last arm that drops the bytes of a message that is not complete
LLPollMessageDropsPartial(acc, d) ==
    IF ~d.ok THEN [kind |-> "None", s |-> <<>>, acc |-> acc]
    ELSE IF Len(d.remaining) < d.value THEN [kind |-> "None", s |-> <<>>, acc |-> <<>>]
    ELSE LET msg == Take(d.remaining, d.value)
             remaining == Drain(d.remaining, d.value)
         IN  IF IsUtf8(msg)
             THEN [kind |-> "String", s |-> TrimEndNewlines(msg), acc |-> remaining]
             ELSE [kind |-> "Err", s |-> msg, acc |-> remaining]

\* the last arm of ll::State::poll, given d, the result of decode::usize
LLPollMessage(acc, d) ==
    IF ~d.ok THEN [kind |-> "None", s |-> <<>>, acc |-> acc]
    ELSE IF Len(d.remaining) < d.value THEN [kind |-> "None", s |-> <<>>, acc |-> acc]
    ELSE LET msg == Take(d.remaining, d.value)
             remaining == Drain(d.remaining, d.value)
         IN  IF IsUtf8(msg)
             THEN [kind |-> "String", s |-> TrimEndNewlines(msg), acc |-> remaining]
             ELSE [kind |-> "Err", s |-> msg, acc |-> remaining]

\* ll::State::poll: kind is "None" (no output), "String", "InitiatorToken",
\* "ResponderToken" or "Err"; acc is the accumulator afterwards
LLPoll(acc) ==
    IF StartsWith(acc, INITIATOR_FRAME)
    THEN [kind |-> "InitiatorToken", s |-> <<>>, acc |-> Drain(acc, 11)]
    ELSE IF StartsWith(acc, RESPONDER_FRAME)
    THEN [kind |-> "ResponderToken", s |-> <<>>, acc |-> Drain(acc, 11)]
    ELSE LLPollMessage(acc, DecodeUsize(acc))

-----------------------------------------------------------------------------
(* hl: the high level state machine *)

\* OneDirection::default
OneDirectionDefault ==
    [inner |-> [acc |-> <<>>], simultaneous_connect |-> FALSE, done |-> None]

\* hl::State::default
HlDefault == [incoming |-> OneDirectionDefault, outgoing |-> OneDirectionDefault]

This(hl, incoming) == IF incoming THEN hl.incoming ELSE hl.outgoing
Other(hl, incoming) == IF incoming THEN hl.outgoing ELSE hl.incoming

\* a match arm in which "na" clears the flag and the proposal of the other
\* direction
OnTokenNaClearsBoth(this, other, s) ==
    IF StartsWith(s, MULTISTREAM_PREFIX)
    THEN [this |-> this, other |-> other]
    ELSE IF StartsWith(s, SIMULTANEOUS_CONNECT_PREFIX)
    THEN [this |-> [this EXCEPT !.simultaneous_connect = TRUE], other |-> other]
    ELSE IF s = NA_STR
    THEN [this |-> this, other |-> [other EXCEPT !.simultaneous_connect = FALSE, !.done = None]]
    ELSE IF StartsWith(s, SELECT_PREFIX)
    THEN [this |-> [this EXCEPT !.simultaneous_connect = FALSE], other |-> other]
    ELSE IF ~this.simultaneous_connect /\ ~other.simultaneous_connect
    THEN [this |-> [this EXCEPT !.done = Some(s)], other |-> other]
    ELSE [this |-> this, other |-> other]

\* the match arm Ok(ll::Output::String(s)) of hl::State::poll
OnToken(this, other, s) ==
    IF StartsWith(s, MULTISTREAM_PREFIX)
    THEN [this |-> this, other |-> other]
    ELSE IF StartsWith(s, SIMULTANEOUS_CONNECT_PREFIX)
    THEN [this |-> [this EXCEPT !.simultaneous_connect = TRUE], other |-> other]
    ELSE IF s = NA_STR
    THEN IF other.simultaneous_connect
         THEN [this |-> this, other |-> [other EXCEPT !.simultaneous_connect = FALSE]]
         ELSE [this |-> this, other |-> [other EXCEPT !.done = None]]
    ELSE IF StartsWith(s, SELECT_PREFIX)
    THEN [this |-> [this EXCEPT !.simultaneous_connect = FALSE], other |-> other]
    ELSE IF ~this.simultaneous_connect /\ ~other.simultaneous_connect
    THEN [this |-> [this EXCEPT !.done = Some(s)], other |-> other]
    ELSE [this |-> this, other |-> other]

\* the `while let Some(output) = this.inner.poll()` loop of hl::State::poll;
\* PollMatch is its body, given r, the result of this.inner.poll()
RECURSIVE PollLoop(_, _, _)
PollMatch(this, other, output_, r) ==
    LET this1 == [this EXCEPT !.inner.acc = r.acc]
    IN  IF r.kind = "None" THEN [this |-> this, other |-> other, output_ |-> output_]
        ELSE IF r.kind = "Err"
        THEN [this |-> this1, other |-> other,
              output_ |-> [output_ EXCEPT !.error = Some(r.s)]]
        ELSE IF r.kind = "String"
        THEN LET t == OnToken(this1, other, r.s) IN
             PollLoop(t.this, t.other,
                      [output_ EXCEPT !.tokens = Append(@, r.s)])
        ELSE IF r.kind = "InitiatorToken"
        THEN PollLoop(this1, other, [output_ EXCEPT !.tokens = Append(@, INITIATOR_STR)])
        ELSE PollLoop(this1, other, [output_ EXCEPT !.tokens = Append(@, RESPONDER_STR)])

PollLoop(this, other, output_) == PollMatch(this, other, output_, LLPoll(this.inner.acc))

\* the agreement test without the comparison of the two proposals
AgreedAnyProposals(this, other) == IsSome(this.done) /\ IsSome(other.done)

\* the agreement test of hl::State::poll
Agreed(this, other) ==
    IsSome(this.done) /\ IsSome(other.done) /\ Unwrap(this.done) = Unwrap(other.done)

\* the end of hl::State::poll, given r, the directions and output_ after the loop
HlPollEnd(incoming, r) ==
    [hl |-> IF incoming THEN [incoming |-> r.this, outgoing |-> r.other]
                        ELSE [incoming |-> r.other, outgoing |-> r.this],
     output |-> r.output_]

\* hl::State::poll: the new hl state and the Output
HlPoll(hl, incoming, bytes) ==
    LET this0 == This(hl, incoming)
        other0 == Other(hl, incoming)
        appended == LLAppend(this0.inner.acc, bytes)
        agree == Agreed(this0, other0)
        e == LLEnd(appended, bytes)
        this1 == [this0 EXCEPT !.inner.acc = IF agree THEN e.acc ELSE appended]
        out0 == [tokens |-> <<>>, error |-> None,
                 agreed |-> IF agree
                            THEN Some([protocol |-> Unwrap(this0.done), data |-> e.data])
                            ELSE None]
    IN  HlPollEnd(incoming, PollLoop(this1, other0, out0))

-----------------------------------------------------------------------------
(* State<Inner>: the pipeline layer *)

\* From<(u64, bool)> for State<Inner>
StateDefault == [error |-> FALSE, stream |-> <<>>, inner |-> None, hl |-> HlDefault]

\* the inner layer: created by Inner::from_name on the first agreement, its
\* on_data receives the forwarded bytes of each direction in order
InnerOnData(inner, protocol, incoming, data) ==
    LET cur == IF IsSome(inner) THEN Unwrap(inner)
               ELSE [name |-> protocol, incoming |-> <<>>, outgoing |-> <<>>]
    IN  Some(IF incoming THEN [cur EXCEPT !.incoming = @ \o data]
                         ELSE [cur EXCEPT !.outgoing = @ \o data])

RECURSIVE StreamAdd(_, _, _)
StreamAdd(stream, incoming, tokens) ==
    IF tokens = <<>> THEN stream
    ELSE StreamAdd(Append(stream, [incoming |-> incoming, token |-> Head(tokens)]),
                   incoming, Tail(tokens))

NoOutput == [tokens |-> <<>>, error |-> None, agreed |-> None]

\* on_data after the call of hl.poll, given p, what that call has produced
OnOutput(st, incoming, p) ==
    LET output == p.output
    IN  [st |-> [error |-> IsSome(output.error),
                 stream |-> StreamAdd(st.stream, incoming, output.tokens),
                 inner |-> IF IsSome(output.agreed)
                           THEN InnerOnData(st.inner, Unwrap(output.agreed).protocol,
                                            incoming, Unwrap(output.agreed).data)
                           ELSE st.inner,
                 hl |-> p.hl],
         output |-> output]

\* HandleData::on_data for State<Inner>: the new layer state and hl's Output
OnData(st, incoming, bytes) ==
    IF st.error THEN [st |-> st, output |-> NoOutput]
    ELSE OnOutput(st, incoming, HlPoll(st.hl, incoming, bytes))

NoLast ==
    [called |-> FALSE, incoming |-> FALSE, chunk |-> <<>>, carried |-> <<>>,
     hl |-> HlDefault, error |-> FALSE, output |-> NoOutput]

-----------------------------------------------------------------------------
(* main(): the recorder loop, and mina_recorder::P2pRecorder *)

\* a BTreeMap as a function on its key set
MapInsert(m, k, v) == [x \in DOMAIN m \cup {k} |-> IF x = k THEN v ELSE m[x]]
MapRemove(m, k) == [x \in DOMAIN m \ {k} |-> m[x]]
EmptyMap == [x \in {} |-> 0]

\* const P2P_PORT; the first ephemeral port
P2P_PORT == 8302
EPHEMERAL_PORT == 49152

Pids == {1, 2}
Fds == {7}
Aliases == {"a", "b"}
Addrs == { [ip |-> 1, port |-> P2P_PORT], [ip |-> 2, port |-> EPHEMERAL_PORT],
           [ip |-> 3, port |-> 80] }
DataSamples == { <<1>> }
RandomSamples == { 32 }

\* ConnectionId of recorder.rs
ConnectionId(alias, addr, fd) == <<alias, addr, fd>>

\* P2pRecorder::on_connect: a fresh pipeline under the connection id
RecOnConnect(rec, incoming, alias, addr, fd) ==
    [rec EXCEPT !.cns = MapInsert(@, ConnectionId(alias, addr, fd), <<>>)]

\* P2pRecorder::on_disconnect
RecOnDisconnect(rec, alias, addr, fd) ==
    [rec EXCEPT !.cns = MapRemove(@, ConnectionId(alias, addr, fd))]

\* P2pRecorder::on_data: the pipeline of the connection id, if any, takes the chunk
RecOnData(rec, incoming, alias, addr, fd, bytes) ==
    LET id == ConnectionId(alias, addr, fd) IN
    IF id \in DOMAIN rec.cns
    THEN [rec EXCEPT !.cns[id] = Append(@, [incoming |-> incoming, bytes |-> bytes])]
    ELSE rec

\* P2pRecorder::on_randomness, Cx::push_randomness
RecOnRandomness(rec, alias, bytes) ==
    [rec EXCEPT !.cx.randomness = Append(@, bytes)]

\* Cx::iter_rand: newest first
RECURSIVE Reverse(_)
Reverse(q) == IF q = <<>> THEN <<>> ELSE Append(Reverse(Tail(q)), Head(q))
IterRand(cx) == Reverse(cx.randomness)

\* the samples a pipeline can iterate when P2pRecorder::on_data hands it
\* `&mut self.cx`: the whole queue, whatever the connection id
Offered(rec, id) == IterRand(rec.cx)

\* one call on the recorder: the method, the match arm that makes it, and the
\* metadata passed
Call(op, event, incoming, alias, addr, pid, fd) ==
    [op |-> op, event |-> event, incoming |-> incoming, alias |-> alias, addr |-> addr,
     pid |-> pid, fd |-> fd]

ConnectionArm(incoming) ==
    IF incoming THEN "IncomingConnection" ELSE "OutgoingConnection"

RecorderIdle ==
    /\ apps = EmptyMap
    /\ p2p_cns = EmptyMap
    /\ ignored_cns = EmptyMap
    /\ recorder = [cns |-> EmptyMap, cx |-> [randomness |-> <<>>]]
    /\ calls = <<>>

\* SnifferEventVariant::NewApp
NewApp(pid, alias) ==
    /\ apps' = MapInsert(apps, pid, alias)
    /\ UNCHANGED <<p2p_cns, ignored_cns, recorder, calls>>

\* SnifferEventVariant::Error
ErrorEvent(pid) ==
    /\ pid \in Pids
    /\ UNCHANGED recorderVars

\* TrackConnection with the synthesized on_disconnect carrying the new address
TrackConnectionNewAddr(incoming, pid, fd, addr) ==
    LET alias == apps[pid]
        key == <<pid, fd>>
        arm == ConnectionArm(incoming)
    IN  /\ p2p_cns' = MapInsert(p2p_cns, key, addr)
        /\ IF key \in DOMAIN p2p_cns
           THEN /\ calls' = calls \o
                      << Call("on_disconnect", arm, incoming, alias, addr, pid, fd),
                         Call("on_connect", arm, incoming, alias, addr, pid, fd) >>
                /\ recorder' = RecOnConnect(RecOnDisconnect(recorder, alias, addr, fd),
                                            incoming, alias, addr, fd)
           ELSE /\ calls' = Append(calls, Call("on_connect", arm, incoming, alias, addr, pid, fd))
                /\ recorder' = RecOnConnect(recorder, incoming, alias, addr, fd)
        /\ UNCHANGED <<apps, ignored_cns>>

\* a connection on a recorded port: p2p_cns.insert, on_disconnect for the old
\* address if the key was present, then on_connect
TrackConnection(incoming, pid, fd, addr) ==
    LET alias == apps[pid]
        key == <<pid, fd>>
        present == key \in DOMAIN p2p_cns
        old_addr == p2p_cns[key]
        arm == ConnectionArm(incoming)
    IN  /\ p2p_cns' = MapInsert(p2p_cns, key, addr)
        /\ IF present
           THEN /\ calls' = calls \o
                      << Call("on_disconnect", arm, incoming, alias, old_addr, pid, fd),
                         Call("on_connect", arm, incoming, alias, addr, pid, fd) >>
                /\ recorder' = RecOnConnect(RecOnDisconnect(recorder, alias, old_addr, fd),
                                            incoming, alias, addr, fd)
           ELSE /\ calls' = Append(calls, Call("on_connect", arm, incoming, alias, addr, pid, fd))
                /\ recorder' = RecOnConnect(recorder, incoming, alias, addr, fd)
        /\ UNCHANGED <<apps, ignored_cns>>

\* a connection on any other port
IgnoreConnection(pid, fd, addr) ==
    /\ ignored_cns' = MapInsert(ignored_cns, <<pid, fd>>, addr)
    /\ UNCHANGED <<apps, p2p_cns, recorder, calls>>

\* SnifferEventVariant::OutgoingConnection
OutgoingConnection(pid, fd, addr) ==
    IF pid \in DOMAIN apps
    THEN IF addr.port = P2P_PORT
         THEN TrackConnection(FALSE, pid, fd, addr)
         ELSE IgnoreConnection(pid, fd, addr)
    ELSE UNCHANGED recorderVars

\* IncomingConnection that records the p2p port only
IncomingConnectionP2pOnly(pid, fd, addr) ==
    IF pid \in DOMAIN apps
    THEN IF addr.port = P2P_PORT
         THEN TrackConnection(TRUE, pid, fd, addr)
         ELSE IgnoreConnection(pid, fd, addr)
    ELSE UNCHANGED recorderVars

\* SnifferEventVariant::IncomingConnection
IncomingConnection(pid, fd, addr) ==
    IF pid \in DOMAIN apps
    THEN IF addr.port = P2P_PORT \/ addr.port >= EPHEMERAL_PORT
         THEN TrackConnection(TRUE, pid, fd, addr)
         ELSE IgnoreConnection(pid, fd, addr)
    ELSE UNCHANGED recorderVars

\* Disconnected with p2p_cns.get in place of p2p_cns.remove
DisconnectedKeepsEntry(pid, fd) ==
    LET key == <<pid, fd>> IN
    IF pid \in DOMAIN apps /\ key \in DOMAIN p2p_cns
    THEN /\ calls' = Append(calls, Call("on_disconnect", "Disconnected", FALSE, apps[pid],
                                       p2p_cns[key], pid, fd))
         /\ recorder' = RecOnDisconnect(recorder, apps[pid], p2p_cns[key], fd)
         /\ UNCHANGED <<apps, p2p_cns, ignored_cns>>
    ELSE UNCHANGED recorderVars

\* SnifferEventVariant::Disconnected
Disconnected(pid, fd) ==
    LET key == <<pid, fd>> IN
    IF pid \in DOMAIN apps /\ key \in DOMAIN p2p_cns
    THEN /\ p2p_cns' = MapRemove(p2p_cns, key)
         /\ calls' = Append(calls, Call("on_disconnect", "Disconnected", FALSE, apps[pid],
                                       p2p_cns[key], pid, fd))
         /\ recorder' = RecOnDisconnect(recorder, apps[pid], p2p_cns[key], fd)
         /\ UNCHANGED <<apps, ignored_cns>>
    ELSE UNCHANGED recorderVars

\* SnifferEventVariant::IncomingData (incoming) and OutgoingData
DataEvent(incoming, pid, fd, data) ==
    LET key == <<pid, fd>> IN
    IF pid \in DOMAIN apps /\ key \in DOMAIN p2p_cns
    THEN /\ calls' = Append(calls, Call("on_data", IF incoming THEN "IncomingData"
                                                  ELSE "OutgoingData",
                                       incoming, apps[pid], p2p_cns[key], pid, fd))
         /\ recorder' = RecOnData(recorder, incoming, apps[pid], p2p_cns[key], fd, data)
         /\ UNCHANGED <<apps, p2p_cns, ignored_cns>>
    ELSE UNCHANGED recorderVars

IncomingData(pid, fd, data) == DataEvent(TRUE, pid, fd, data)
OutgoingData(pid, fd, data) == DataEvent(FALSE, pid, fd, data)

\* SnifferEventVariant::Random
Random(pid, random) ==
    IF pid \in DOMAIN apps
    THEN /\ calls' = Append(calls, Call("on_randomness", "Random", FALSE, apps[pid],
                                       [ip |-> 0, port |-> 0], pid, 0))
         /\ recorder' = RecOnRandomness(recorder, apps[pid], random)
         /\ UNCHANGED <<apps, p2p_cns, ignored_cns>>
    ELSE UNCHANGED recorderVars

\* one event of the ring is matched by the loop body
\* the loop takes events while the model's call budget lasts
MoreEvents == Len(calls) < MaxCalls

RecorderNext ==
    \/ \E pid \in Pids, alias \in Aliases :
          MoreEvents /\ NewApp(pid, alias) /\ UNCHANGED <<selectVars, ringVars, probeVars, dbVars>>
    \/ \E pid \in Pids :
          MoreEvents /\ ErrorEvent(pid) /\ UNCHANGED <<selectVars, ringVars, probeVars, dbVars>>
    \/ \E pid \in Pids, fd \in Fds, addr \in Addrs :
          MoreEvents /\ OutgoingConnection(pid, fd, addr) /\ UNCHANGED <<selectVars, ringVars, probeVars, dbVars>>
    \/ \E pid \in Pids, fd \in Fds, addr \in Addrs :
          MoreEvents /\ IncomingConnection(pid, fd, addr) /\ UNCHANGED <<selectVars, ringVars, probeVars, dbVars>>
    \/ \E pid \in Pids, fd \in Fds :
          MoreEvents /\ Disconnected(pid, fd) /\ UNCHANGED <<selectVars, ringVars, probeVars, dbVars>>
    \/ \E pid \in Pids, fd \in Fds, data \in DataSamples :
          MoreEvents /\ IncomingData(pid, fd, data) /\ UNCHANGED <<selectVars, ringVars, probeVars, dbVars>>
    \/ \E pid \in Pids, fd \in Fds, data \in DataSamples :
          MoreEvents /\ OutgoingData(pid, fd, data) /\ UNCHANGED <<selectVars, ringVars, probeVars, dbVars>>
    \/ \E pid \in Pids, random \in RandomSamples :
          MoreEvents /\ Random(pid, random) /\ UNCHANGED <<selectVars, ringVars, probeVars, dbVars>>

SelectIdle ==
    /\ state = StateDefault
    /\ whole = StateDefault
    /\ pending = <<>>
    /\ pending_incoming = FALSE
    /\ chunks = 0
    /\ writes = 0
    /\ script = 0
    /\ last = NoLast
    /\ expect = [agreed |-> FALSE, incoming |-> None, outgoing |-> None]
    /\ poisoned = None

-----------------------------------------------------------------------------
(* bpf_ring_buffer::RingBuffer, the producer, and the capture loop of main() *)

\* constants of RingBuffer::read
HEADER_SIZE == 8
TOTAL_READ_THRESHOLD == 1048576

\* capacities of the ring (max_length): a small one and the one of App
Capacities == { 128, 2^29 }

\* the payloads the producer writes into a ring of the given capacity: their
\* length, and what RingBufferData::from_rb_slice makes of them, Ok(Some(_)),
\* Ok(None) or Err(_); a payload shorter than an event header is an error
Payloads(capacity) ==
    { [length |-> 5, kind |-> "Err"],
      [length |-> capacity \div 2 - 19, kind |-> "Some"],
      [length |-> capacity \div 2 - 19, kind |-> "None"],
      [length |-> capacity \div 2 - 8, kind |-> "Some"] }

\* a length that is not rounded up
Align8None(length) == length
\* (length + 7) / 8 * 8
Align8(length) == ((length + 7) \div 8) * 8
RecordSize(length) == HEADER_SIZE + Align8(length)

\* RingBuffer::new
RingBufferNew(max_length) ==
    [mask |-> max_length - 1, consumer_pos_value |-> 0, last_reported_percent |-> 0]

Capacity == rb.mask + 1

\* index_in_array of a position: (pos & mask) / size_of::<AtomicUsize>()
IndexInArray(pos) == (pos % Capacity) \div 8

\* the header word at an index; memory never written reads as zero
ZeroHeader == [length |-> 0, busy |-> FALSE, discard |-> FALSE, id |-> 0, kind |-> "Err"]
Load(index) == IF index \in DOMAIN observer_data THEN observer_data[index] ELSE ZeroHeader

\* whether the word at `index` lies in the `size` bytes written at `pos`
InRecord(index, pos, size) ==
    (index - IndexInArray(pos)) % (Capacity \div 8) < size \div 8

RingStart ==
    /\ producer_pos = 0
    /\ consumer_pos = 0
    /\ observer_data = EmptyMap
    /\ records = <<>>
    /\ pc = "main"
    /\ pr_pos = 0
    /\ vec = <<>>
    /\ read_total = 0
    /\ terminating = FALSE
    /\ exit_code = None
    /\ decoded = <<>>
    /\ slices = <<>>
    /\ returned = None

RingIdle == rb = RingBufferNew(128) /\ RingStart

RingInit == (\E max_length \in Capacities : rb = RingBufferNew(max_length)) /\ RingStart

\* the producer reserves a record: it fits only if the producer stays at most
\* `mask` bytes ahead of the shared consumer position; the header is stored
\* BUSY, then the producer position is advanced
Reserve(length, kind) ==
    LET size == RecordSize(length)
        id == Len(records) + 1
        header == [length |-> length, busy |-> TRUE, discard |-> FALSE,
                   id |-> id, kind |-> kind]
        kept == { x \in DOMAIN observer_data : ~InRecord(x, producer_pos, size) }
        index == IndexInArray(producer_pos)
    IN  /\ Len(records) < MaxRecords
        /\ producer_pos + size - consumer_pos <= rb.mask
        /\ observer_data' = [x \in kept \cup {index} |-> IF x = index THEN header ELSE observer_data[x]]
        /\ records' = Append(records, [pos |-> producer_pos, length |-> length,
                                       status |-> "busy", kind |-> kind])
        /\ producer_pos' = producer_pos + size
        /\ UNCHANGED <<rb, consumer_pos, pc, pr_pos, vec, read_total, terminating,
                       exit_code, decoded, slices, returned>>

\* the producer submits (discard = FALSE) or discards a reserved record
Commit(id, discard) ==
    /\ id \in 1..Len(records)
    /\ records[id].status = "busy"
    /\ records' = [records EXCEPT ![id].status = IF discard THEN "discarded"
                                                 ELSE "committed"]
    /\ observer_data' = [observer_data EXCEPT ![IndexInArray(records[id].pos)] =
                    [@ EXCEPT !.busy = FALSE, !.discard = discard]]
    /\ UNCHANGED <<rb, producer_pos, consumer_pos, pc, pr_pos, vec, read_total,
                   terminating, exit_code, decoded, slices, returned>>

\* ctrlc handler: terminating.store(true)
CtrlC ==
    /\ ~terminating
    /\ pc \notin {"terminated", "exited"}
    /\ terminating' = TRUE
    /\ UNCHANGED <<rb, producer_pos, consumer_pos, observer_data, records, pc, pr_pos, vec,
                   read_total, exit_code, decoded, slices, returned>>

\* main(): `while !terminating.load()`, then `rb.read_blocking(&terminating)`
MainLoop ==
    /\ pc = "main"
    /\ IF terminating
       THEN /\ pc' = "terminated"
            /\ exit_code' = Some(0)
       ELSE /\ pc' = "read"
            /\ UNCHANGED exit_code
    /\ vec' = <<>>
    /\ read_total' = 0
    /\ UNCHANGED <<rb, producer_pos, consumer_pos, observer_data, records, pr_pos, terminating,
                   decoded, slices, returned>>

\* the end of RingBuffer::read and what read_blocking and main() do with it:
\* an empty vec is WouldBlock (read_blocking waits), anything else is returned
\* and the `while let` loop of main() calls read_blocking again
AfterRead(v) ==
    IF v = <<>>
    THEN /\ pc' = "wait"
         /\ UNCHANGED returned
    ELSE /\ pc' = "read"
         /\ returned' = Some("Ok")

\* the overflow test of RingBuffer::read
Overflow(percent) == percent >= 100

\* RingBuffer::read, top of the loop: load the producer position and compare
ReadProducerPos ==
    /\ pc = "read"
    /\ LET p == producer_pos
           distance == p - rb.consumer_pos_value
           quant == (rb.mask + 1) \div 100
           percent == distance \div quant
       IN  IF rb.consumer_pos_value > p
           THEN \* Err("read uninitialized observer_data"): read_blocking returns it, the
                \* `while let` of main() ends and the outer loop goes on
                /\ pc' = "main"
                /\ returned' = Some("Err")
                /\ vec' = <<>>
                /\ read_total' = 0
                /\ UNCHANGED <<rb, pr_pos, exit_code>>
           ELSE IF rb.consumer_pos_value = p
           THEN /\ AfterRead(vec)
                /\ vec' = <<>>
                /\ read_total' = 0
                /\ UNCHANGED <<rb, pr_pos, exit_code>>
           ELSE IF Overflow(percent)
           THEN /\ pc' = "exited"
                /\ exit_code' = Some(1)
                /\ pr_pos' = p
                /\ UNCHANGED <<rb, vec, read_total, returned>>
           ELSE /\ pc' = "header"
                /\ pr_pos' = p
                /\ rb' = [rb EXCEPT !.last_reported_percent = percent]
                /\ UNCHANGED <<vec, read_total, exit_code, returned>>
    /\ UNCHANGED <<producer_pos, consumer_pos, observer_data, records, terminating, decoded, slices>>

\* header & BUSY_BIT != 0, with a variant that never sees the bit
IsBusySkipped(header) == FALSE
IsBusy(header) == header.busy

\* RingBuffer::read, rest of the loop body: load the header, stop at BUSY, else
\* advance, decode unless DISCARD, publish the position, stop past the threshold
ReadHeader ==
    /\ pc = "header"
    /\ LET header == Load(IndexInArray(rb.consumer_pos_value))
           length == header.length
           yield == ~header.discard
           ok == yield /\ header.kind # "Err"
           vec1 == IF yield /\ header.kind = "Some" THEN Append(vec, header.id) ELSE vec
           total1 == IF ok THEN read_total + length ELSE read_total
       IN  IF IsBusy(header)
           THEN /\ AfterRead(vec)
                /\ vec' = <<>>
                /\ read_total' = 0
                /\ UNCHANGED <<rb, consumer_pos, decoded, slices>>
           ELSE /\ rb' = [rb EXCEPT !.consumer_pos_value = @ + HEADER_SIZE + Align8(length)]
                /\ decoded' = IF yield THEN Append(decoded, header.id) ELSE decoded
                /\ slices' = IF yield
                             THEN Append(slices, [data_offset |-> (rb.consumer_pos_value % Capacity) + HEADER_SIZE,
                                                  length |-> length])
                             ELSE slices
                /\ consumer_pos' = rb'.consumer_pos_value
                /\ IF total1 > TOTAL_READ_THRESHOLD
                   THEN /\ AfterRead(vec1)
                        /\ vec' = <<>>
                        /\ read_total' = 0
                   ELSE /\ pc' = "read"
                        /\ vec' = vec1
                        /\ read_total' = total1
                        /\ UNCHANGED returned
    /\ pr_pos' = 0
    /\ UNCHANGED <<producer_pos, observer_data, records, terminating, exit_code>>

\* RingBuffer::wait and the rest of read_blocking: poll returns with POLLIN when
\* the ring holds unread bytes, or the flag ends the wait; with the flag set
\* read_blocking returns the empty vec, otherwise it reads again
Wait ==
    /\ pc = "wait"
    /\ terminating \/ producer_pos > consumer_pos
    /\ IF terminating
       THEN /\ pc' = "main"
            /\ returned' = Some("Empty")
       ELSE /\ pc' = "read"
            /\ UNCHANGED returned
    /\ UNCHANGED <<rb, producer_pos, consumer_pos, observer_data, records, pr_pos, vec,
                   read_total, terminating, exit_code, decoded, slices>>

\* a fault of the shared page, after the producer's last reservation: the
\* producer position reads below the consumer's
CorruptProducerPos ==
    /\ pc \notin {"terminated", "exited"}
    /\ Len(records) = MaxRecords
    /\ rb.consumer_pos_value > 0
    /\ producer_pos >= rb.consumer_pos_value
    /\ \E p \in {0, rb.consumer_pos_value - 8} : producer_pos' = p
    /\ UNCHANGED <<rb, consumer_pos, observer_data, records, pc, pr_pos, vec, read_total,
                   terminating, exit_code, decoded, slices, returned>>

RingNext ==
    \/ \E payload \in Payloads(Capacity) :
          Reserve(payload.length, payload.kind) /\ UNCHANGED <<selectVars, recorderVars, probeVars, dbVars>>
    \/ \E id \in 1..Len(records), discard \in BOOLEAN :
          Commit(id, discard) /\ UNCHANGED <<selectVars, recorderVars, probeVars, dbVars>>
    \/ CtrlC /\ UNCHANGED <<selectVars, recorderVars, probeVars, dbVars>>
    \/ MainLoop /\ UNCHANGED <<selectVars, recorderVars, probeVars, dbVars>>
    \/ ReadProducerPos /\ UNCHANGED <<selectVars, recorderVars, probeVars, dbVars>>
    \/ ReadHeader /\ UNCHANGED <<selectVars, recorderVars, probeVars, dbVars>>
    \/ Wait /\ UNCHANGED <<selectVars, recorderVars, probeVars, dbVars>>

RingFaultNext ==
    \/ RingNext
    \/ CorruptProducerPos /\ UNCHANGED <<selectVars, recorderVars, probeVars, dbVars>>

\* bpf-recorder, the kernel probe (src/bpf-recorder/src/main.rs, feature "kern")

\* the width of u32 in the model; a u64 socket id has twice this width
U32Bits == 4
U32 == 0 .. (2^U32Bits - 1)
AsU32(x) == x % (2^U32Bits)

\* the flag check_env_flag stores for a tracked pid, 0xffffffff
TRACKED == 2^U32Bits - 1

\* #[ringbuf(size = 0x20000000)]
RING_SIZE == 536870912
\* size of the packed struct Event
EVENT_SIZE == 32

EAGAIN == -11
EINPROGRESS == -115
AF_INET == 2
AF_INET6 == 10

\* threads of the traced machine: get_current_pid_tgid() of each
ProbeThreads == { [pid |-> 1, tid |-> 3], [pid |-> 2, tid |-> 2] }
ProbeFds == {1, 2}

\* user memory behind a pointer: Some(bytes), or None when it cannot be read
\* sockaddr_in 127.0.0.1:8302, sockaddr_in6 [::1]:8302, sockaddr_un
SOCKADDR_IN == <<2,0, 32,110, 127,0,0,1, 0,0,0,0,0,0,0,0>>
SOCKADDR_IN6 == <<10,0, 32,110, 0,0,0,0, 0,0,0,0,0,0,0,0,0,0,0,0,0,0,0,1, 0,0,0,0>>
SOCKADDR_UN == <<1,0, 47,120, 0,0,0,0, 0,0,0,0,0,0,0,0>>
AddrSamples == {Some(SOCKADDR_IN), Some(SOCKADDR_UN), None}
\* "hi"
BUFFER == <<104,105>>
RANDOM32 == [i \in 1..32 |-> i]

\* what the third argument of accept4 (ctx offset 0x20) holds: the address of
\* the caller's socklen_t, converted to i32 by set_ok
AcceptAddrLens == {1597807132, -549676516}

\* a syscall as the tracepoints see it: its number, the arguments at ctx
\* offsets 0x10, 0x18 (the memory behind it when the syscall returns), 0x20
Syscall(nr, fd, mem, len) == [nr |-> nr, fd |-> fd, mem |-> mem, len |-> len]
Syscalls ==
         { Syscall("connect", fd, mem, Len(SOCKADDR_IN)) : fd \in ProbeFds, mem \in AddrSamples }
    \cup { Syscall("bind", 1, Some(SOCKADDR_IN), Len(SOCKADDR_IN)) }
    \cup { Syscall("accept4", 3, mem, len) : mem \in AddrSamples, len \in AcceptAddrLens }
    \cup { Syscall(nr, fd, Some(BUFFER), Len(BUFFER)) : nr \in {"write", "read"}, fd \in ProbeFds }
    \cup { Syscall(nr, 1, Some(BUFFER), Len(BUFFER)) : nr \in {"sendto", "recvfrom"} }
    \cup { Syscall("getrandom", 0, Some(RANDOM32), len) : len \in {32, 16} }

\* the values the kernel can return from each syscall
Returns(call) ==
    CASE call.nr = "connect" -> {0, EINPROGRESS, EAGAIN, -111}
      [] call.nr = "bind" -> {0, -98}
      [] call.nr = "accept4" -> ProbeFds \cup {EAGAIN, -24}
      [] call.nr = "getrandom" -> {call.len}
      [] OTHER -> {1, Len(BUFFER), EAGAIN, -32}

ReturnValues == UNION { Returns(call) : call \in Syscalls }

\* Event::new, set_tag_fd, set_ok, set_err
EventNew(pid, ts0, ts1) ==
    [fd |-> 0, pid |-> pid, ts0 |-> ts0, ts1 |-> ts1, tag |-> "Debug", size |-> 0]
SetTagFd(event, tag, fd) == [event EXCEPT !.tag = tag, !.fd = fd]
\* set_ok that drops the size
SetOkZero(event, size) == [event EXCEPT !.size = 0]
SetOk(event, size) == [event EXCEPT !.size = size]
SetErr(event, code) == [event EXCEPT !.size = code]

\* send::dyn_sized: reserve EVENT_SIZE + payload_len bytes of the ring, write
\* the header, copy the payload from user memory; on any failure the
\* reservation is discarded and nothing is emitted
PayloadLen(event) == IF event.size > 0 THEN event.size ELSE 0
DynSized(queue, event, mem, room) ==
    LET payload_len == PayloadLen(event)
        readable == payload_len = 0 \/ (IsSome(mem) /\ payload_len <= Len(Unwrap(mem)))
    IN  IF room /\ EVENT_SIZE + payload_len <= RING_SIZE /\ readable
        THEN [ok |-> TRUE,
              queue |-> Append(queue, [event |-> event,
                                       data |-> IF payload_len = 0 THEN <<>>
                                                ELSE Take(Unwrap(mem), payload_len)])]
        ELSE [ok |-> FALSE, queue |-> queue]

\* context::Variant as the enter_* handlers build it
Variant(call) ==
    CASE call.nr = "bind" -> [variant |-> "Bind", fd |-> AsU32(call.fd), len |-> call.len]
      [] call.nr = "connect" -> [variant |-> "Connect", fd |-> AsU32(call.fd), len |-> call.len]
      [] call.nr = "accept4" -> [variant |-> "Accept", fd |-> AsU32(call.fd), len |-> call.len]
      [] call.nr = "write" -> [variant |-> "Write", fd |-> AsU32(call.fd), len |-> 0]
      [] call.nr = "read" -> [variant |-> "Read", fd |-> AsU32(call.fd), len |-> 0]
      [] call.nr = "sendto" -> [variant |-> "Send", fd |-> AsU32(call.fd), len |-> 0]
      [] call.nr = "recvfrom" -> [variant |-> "Recv", fd |-> AsU32(call.fd), len |-> 0]
      [] call.nr = "getrandom" -> [variant |-> "GetRandom", fd |-> 0, len |-> call.len]

\* a socket id without the shift
SocketIdSum(fd, pid) == fd + pid
\* let socket_id = ((fd as u64) << 32) + (pid as u64)
SocketId(fd, pid) == fd * (2^U32Bits) + pid

\* a lookup that finds every socket id
ConnectionsGetAny(socket_id) == TRUE
\* self.connections.get(&socket_id.to_ne_bytes()).is_some()
ConnectionsGet(socket_id) == socket_id \in DOMAIN connections

\* a check_pid that lets every pid pass
CheckPidAlways(pid) == TRUE
\* App::check_pid
CheckPid(pid) == pid \in DOMAIN pid_flags /\ pid_flags[pid] = TRACKED

\* a check_addr that accepts every address
CheckAddrAny(mem) == TRUE
\* check_addr inside on_ret
CheckAddr(mem) ==
    /\ IsSome(mem)
    /\ Len(Unwrap(mem)) >= 2
    /\ LET ty == Unwrap(mem)[1] + 256 * Unwrap(mem)[2]
       IN  ty = AF_INET \/ ty = AF_INET6

\* the handler that ran last: its name, the thread, the syscall and, for an
\* exit, the return value and whether a pending record was found
Handler(name, thread, call, ret, found) ==
    [handler |-> name, thread |-> thread, call |-> call, ret |-> ret, pending |-> found]
NoHandler == Handler("none", [pid |-> 0, tid |-> 0], Syscall("none", 0, None, 0), 0, FALSE)

\* one process that execs, connects, writes and closes: where it is, its
\* thread, the fd it connected, what connect and what its writes returned
Session(phase, thread, fd, written) ==
    [phase |-> phase, thread |-> thread, fd |-> fd, connect |-> 0, written |-> written]
NoSession == Session("start", [pid |-> 0, tid |-> 0], 0, <<>>)

ProbeIdle ==
    /\ pid_flags = EmptyMap
    /\ context_parameters = EmptyMap
    /\ connections = EmptyMap
    /\ event_queue = <<>>
    /\ running = EmptyMap
    /\ ktime = 0
    /\ last_handler = NoHandler
    /\ session = NoSession
    /\ sockets = {}
    /\ scratch = <<>>

\* ktime_get_ns advances
Tick ==
    /\ ktime < MaxTime
    /\ ktime' = ktime + 1
    /\ UNCHANGED <<pid_flags, context_parameters, connections, event_queue, running, last_handler, sockets, scratch>>

\* the user-space reader has consumed every event of the ring
ReadAll ==
    /\ event_queue # <<>>
    /\ event_queue' = <<>>
    /\ UNCHANGED <<pid_flags, context_parameters, connections, running, ktime, last_handler, sockets, scratch>>

\* App::enter, reached from enter_bind, enter_connect, enter_accept4,
\* enter_write, enter_read, enter_sendto, enter_recvfrom and enter_getrandom
Enter(thread, call) ==
    /\ running = EmptyMap
    /\ running' = MapInsert(running, thread.tid, call)
    /\ last_handler' = Handler("enter", thread, call, 0, FALSE)
    /\ IF (call.nr = "getrandom" => call.len = 32) /\ CheckPid(thread.pid)
       THEN context_parameters' =
                MapInsert(context_parameters, thread.tid, [data |-> Variant(call), ts |-> ktime])
       ELSE UNCHANGED context_parameters
    /\ scratch' = <<>>
    /\ UNCHANGED <<pid_flags, connections, event_queue, ktime, sockets>>

\* a connect that fails on every negative return value
ConnectFailedAnyError(ret) == ret < 0
\* ret < 0 && ret != EINPROGRESS
ConnectFailed(ret) == ret < 0 /\ ret # EINPROGRESS

\* App::on_ret: the socket ids and the events after it
OnRet(ret, data, ts0, ts1, pid, mem, room) ==
    LET event == EventNew(pid, ts0, ts1)
        unchanged == [connections |-> connections, event_queue |-> event_queue]
        send(e, cns) == [connections |-> cns,
                         event_queue |-> DynSized(event_queue, e, mem, room).queue]
    IN  IF ret = EAGAIN THEN unchanged
        ELSE CASE data.variant = "Bind" ->
                    send(IF ret < 0 THEN SetErr(SetTagFd(event, "Bind", data.fd), ret)
                         ELSE SetOk(SetTagFd(event, "Bind", data.fd), data.len),
                         connections)
               [] data.variant = "Connect" ->
                    IF ~CheckAddr(mem) THEN unchanged
                    ELSE IF ConnectFailed(ret)
                    THEN send(SetErr(SetTagFd(event, "Connect", data.fd), ret), connections)
                    ELSE send(SetOk(SetTagFd(event, "Connect", data.fd), data.len),
                              MapInsert(connections, SocketId(data.fd, pid), 1))
               [] data.variant = "Accept" ->
                    IF ret < 0
                    THEN send(SetErr(SetTagFd(event, "Accept", AsU32(ret)), ret), connections)
                    ELSE IF ~CheckAddr(mem) THEN unchanged
                    ELSE send(SetOk(SetTagFd(event, "Accept", AsU32(ret)), data.len),
                              MapInsert(connections, SocketId(AsU32(ret), pid), 1))
               [] data.variant \in {"Send", "Write"} ->
                    IF ~ConnectionsGet(SocketId(data.fd, pid)) THEN unchanged
                    ELSE send(IF ret < 0 THEN SetErr(SetTagFd(event, "Write", data.fd), ret)
                              ELSE SetOk(SetTagFd(event, "Write", data.fd), ret),
                              connections)
               [] data.variant \in {"Recv", "Read"} ->
                    IF ~ConnectionsGet(SocketId(data.fd, pid)) THEN unchanged
                    ELSE send(IF ret < 0 THEN SetErr(SetTagFd(event, "Read", data.fd), ret)
                              ELSE SetOk(SetTagFd(event, "Read", data.fd), ret),
                              connections)
               [] data.variant = "GetRandom" ->
                    send(SetOk(SetTagFd(event, "Random", 0), data.len), connections)

\* the socket <<fd, pid>> a returning syscall has opened for the process: the
\* fd of a connect to an AF_INET or AF_INET6 address that returned 0 or
\* EINPROGRESS, the fd an accept4 returned with such a peer address
InetAddress(mem) ==
    /\ IsSome(mem)
    /\ Len(Unwrap(mem)) >= 2
    /\ <<Unwrap(mem)[1], Unwrap(mem)[2]>> \in {<<AF_INET, 0>>, <<AF_INET6, 0>>}
Opened(pid, call, ret) ==
    IF ~InetAddress(call.mem) THEN {}
    ELSE IF call.nr = "connect" /\ (ret >= 0 \/ ret = EINPROGRESS) THEN {<<AsU32(call.fd), pid>>}
    ELSE IF call.nr = "accept4" /\ ret >= 0 THEN {<<AsU32(ret), pid>>}
    ELSE {}

\* a lookup that leaves the record in the table
ContextParametersGet(thread_id) == context_parameters
\* self.context_parameters.remove_unsafe(&thread_id.to_ne_bytes())
ContextParametersRemove(thread_id) == MapRemove(context_parameters, thread_id)

\* App::exit, reached from every exit_* handler
Exit(thread, ret, room) ==
    /\ thread.tid \in DOMAIN running
    /\ ret \in Returns(running[thread.tid])
    /\ running' = MapRemove(running, thread.tid)
    /\ last_handler' = Handler("exit", thread, running[thread.tid], ret,
                       thread.tid \in DOMAIN context_parameters)
    /\ IF CheckPid(thread.pid) /\ thread.tid \in DOMAIN context_parameters
       THEN LET r == OnRet(ret, context_parameters[thread.tid].data,
                           context_parameters[thread.tid].ts, ktime, thread.pid,
                           running[thread.tid].mem, room)
            IN  /\ context_parameters' = ContextParametersRemove(thread.tid)
                /\ connections' = r.connections
                /\ event_queue' = r.event_queue
       ELSE UNCHANGED <<context_parameters, connections, event_queue>>
    /\ sockets' = IF CheckPid(thread.pid) /\ thread.tid \in DOMAIN context_parameters
                  THEN sockets \cup Opened(thread.pid, running[thread.tid], ret)
                  ELSE sockets
    /\ scratch' = <<>>
    /\ UNCHANGED <<pid_flags, ktime>>

\* an enter_close that looks the socket id up and leaves it in the map
EnterCloseKeepsId(thread, fd, room) ==
    /\ thread.tid \notin DOMAIN running
    /\ last_handler' = Handler("close", thread, Syscall("close", fd, None, 0), 0, FALSE)
    /\ IF CheckPid(thread.pid) /\ SocketId(AsU32(fd), thread.pid) \in DOMAIN connections
       THEN event_queue' =
               DynSized(event_queue,
                        SetTagFd(EventNew(thread.pid, ktime, ktime), "Close", AsU32(fd)),
                        None, room).queue
       ELSE UNCHANGED event_queue
    /\ sockets' = sockets \ {<<AsU32(fd), thread.pid>>}
    /\ scratch' = <<>>
    /\ UNCHANGED <<pid_flags, context_parameters, connections, running, ktime>>

\* App::enter_close
EnterClose(thread, fd, room) ==
    /\ thread.tid \notin DOMAIN running
    /\ last_handler' = Handler("close", thread, Syscall("close", fd, None, 0), 0, FALSE)
    /\ IF CheckPid(thread.pid) /\ SocketId(AsU32(fd), thread.pid) \in DOMAIN connections
       THEN /\ connections' = MapRemove(connections, SocketId(AsU32(fd), thread.pid))
            /\ event_queue' =
                  DynSized(event_queue,
                           SetTagFd(EventNew(thread.pid, ktime, ktime), "Close", AsU32(fd)),
                           None, room).queue
       ELSE UNCHANGED <<connections, event_queue>>
    /\ sockets' = sockets \ {<<AsU32(fd), thread.pid>>}
    /\ scratch' = <<>>
    /\ UNCHANGED <<pid_flags, context_parameters, running, ktime>>

\* "BPF_ALIAS", the nine bytes check_env_entry compares
BPF_ALIAS == <<66,80,70,95,65,76,73,65,83>>
\* size of the scratch reservation of check_env_entry
ENV_ENTRY_SIZE == 512
\* the number of environment entries check_env_flag examines at most
ENV_SCAN_LIMIT == 256
\* offset of the name in the entry
ALIAS_NAME_OFFSET == 10

\* size of the scratch reservation of check_env_flag, one pointer
ENV_SLOT_SIZE == 8

\* an entry pointer into memory that cannot be read, and a slot of the
\* environment array that cannot be read
BAD_POINTER == <<-1>>
BAD_SLOT == <<-2>>

\* helpers::probe_read_user_str(dst, size, src) on a NUL-terminated string:
\* copies at most size - 1 bytes and a NUL, returns the length with the NUL,
\* or -EFAULT when src cannot be read
ProbeReadUserStr(size, str) ==
    LET copied == IF Len(str) < size THEN Len(str) ELSE size - 1
    IN  IF str = BAD_POINTER THEN [c |-> -14, bytes |-> <<>>]
        ELSE [c |-> copied + 1, bytes |-> Take(str, copied) \o <<0>>]

\* event_queue.reserve(size) has succeeded; reservation.discard()
Reserved(size) == [size |-> size, state |-> "busy"]
Discard(reservation) == [reservation EXCEPT !.state = "discard"]

\* a check_env_entry that returns on a string too short without the discard
CheckEnvEntryKeepsShort(entry, free) ==
    IF RecordSize(ENV_ENTRY_SIZE) > free
    THEN [ret |-> None, scratch |-> <<>>, free |-> free]
    ELSE LET str_bytes == ProbeReadUserStr(ENV_ENTRY_SIZE, entry)
             left == free - RecordSize(ENV_ENTRY_SIZE)
         IN  IF ~(str_bytes.c >= 9 /\ str_bytes.c <= ENV_ENTRY_SIZE)
             THEN [ret |-> None, scratch |-> <<Reserved(ENV_ENTRY_SIZE)>>, free |-> left]
             ELSE [ret |-> IF Take(str_bytes.bytes, 9) = BPF_ALIAS
                           THEN Some(str_bytes.c - ALIAS_NAME_OFFSET)
                           ELSE None,
                   scratch |-> <<Discard(Reserved(ENV_ENTRY_SIZE))>>, free |-> left]

\* App::check_env_entry with free bytes left in the ring: ret is Some(length)
\* for Ok and None for Err, scratch the reservation it made and how it left
\* it, free the bytes left after it
CheckEnvEntry(entry, free) ==
    IF RecordSize(ENV_ENTRY_SIZE) > free
    THEN [ret |-> None, scratch |-> <<>>, free |-> free]
    ELSE LET str_bytes == ProbeReadUserStr(ENV_ENTRY_SIZE, entry)
             left == free - RecordSize(ENV_ENTRY_SIZE)
         IN  IF ~(str_bytes.c >= 9 /\ str_bytes.c <= ENV_ENTRY_SIZE)
             THEN [ret |-> None, scratch |-> <<Discard(Reserved(ENV_ENTRY_SIZE))>>, free |-> left]
             ELSE [ret |-> IF Take(str_bytes.bytes, 9) = BPF_ALIAS
                           THEN Some(str_bytes.c - ALIAS_NAME_OFFSET)
                           ELSE None,
                   scratch |-> <<Discard(Reserved(ENV_ENTRY_SIZE))>>, free |-> left]

\* the loop of check_env_flag: whether it has ended, the entry that
\* check_env_entry accepted and the length it returned, the reservations the
\* check_env_entry calls made, the bytes left in the ring
ScanStart(free) == [done |-> FALSE, found |-> None, scratch |-> <<>>, free |-> free]

\* the rest of an iteration, after check_env_entry has returned checked
ScanChecked(entry, i, scan, checked) ==
    [done |-> IsSome(checked.ret) \/ i + 1 >= ENV_SCAN_LIMIT,
     found |-> IF IsSome(checked.ret)
               THEN Some([entry |-> entry, len |-> Unwrap(checked.ret)])
               ELSE None,
     scratch |-> scan.scratch \o checked.scratch,
     free |-> checked.free]

\* one iteration of the loop of check_env_flag, with i entries read before it:
\* it breaks when the slot cannot be read or holds the terminating null
ScanStep(env, i, scan) ==
    IF scan.done THEN scan
    ELSE IF i >= Len(env) \/ env[i + 1] = BAD_SLOT THEN [scan EXCEPT !.done = TRUE]
    ELSE ScanChecked(env[i + 1], i, scan, CheckEnvEntry(env[i + 1], scan.free))

\* the iterations lo .. hi - 1 of the loop of App::check_env_flag; none runs
\* once the loop has ended
RECURSIVE EnvScan(_, _, _, _)
EnvScan(env, lo, hi, scan) ==
    IF scan.done \/ hi <= lo THEN scan
    ELSE IF hi = lo + 1 THEN ScanStep(env, lo, scan)
    ELSE EnvScan(env, (lo + hi) \div 2, hi, EnvScan(env, lo, (lo + hi) \div 2, scan))

\* App::check_env_flag: env is None for a null pointer, else the entries
\* before the terminating null; scan is the outcome of its loop
CheckEnvFlag(pid, env, scan, free) ==
    IF ~IsSome(env) \/ RecordSize(ENV_SLOT_SIZE) > free
    THEN /\ scratch' = <<>>
         /\ UNCHANGED <<pid_flags, event_queue>>
    ELSE IF ~IsSome(scan.found)
    THEN /\ scratch' = <<Discard(Reserved(ENV_SLOT_SIZE))>> \o scan.scratch
         /\ UNCHANGED <<pid_flags, event_queue>>
    ELSE LET event == SetOk(SetTagFd(EventNew(pid, ktime, ktime), "Alias", 0), Unwrap(scan.found).len)
             name == Some(Drain(Unwrap(scan.found).entry \o <<0>>, ALIAS_NAME_OFFSET))
             sent == DynSized(event_queue, event, name,
                              RecordSize(EVENT_SIZE + PayloadLen(event)) <= scan.free)
         IN  /\ scratch' = <<Discard(Reserved(ENV_SLOT_SIZE))>> \o scan.scratch
             /\ event_queue' = sent.queue
             /\ pid_flags' = IF sent.ok THEN MapInsert(pid_flags, pid, TRACKED) ELSE pid_flags

\* App::execve and App::execveat, with free bytes left in the ring
Execve(thread, env, free) ==
    /\ thread.tid \notin DOMAIN running
    /\ last_handler' = Handler("execve", thread, Syscall("execve", 0, env, 0), 0, FALSE)
    /\ CheckEnvFlag(thread.pid, env,
                    IF IsSome(env) /\ RecordSize(ENV_SLOT_SIZE) <= free
                    THEN EnvScan(Unwrap(env), 0, Len(Unwrap(env)) + 1,
                                 ScanStart(free - RecordSize(ENV_SLOT_SIZE)))
                    ELSE ScanStart(free),
                    free)
    /\ UNCHANGED <<context_parameters, connections, running, ktime, sockets>>

\* SnifferEvent::from_rb_slice on an Alias record: Some of the string of
\* NewApp, None for every other outcome
FromRbSliceAlias(item) ==
    IF item.event.size < 0 \/ Len(item.data) < item.event.size \/ item.event.tag # "Alias"
    THEN None
    ELSE IF IsUtf8(Take(item.data, item.event.size))
         THEN Some(Take(item.data, item.event.size))
         ELSE None

\* SnifferEvent::from_rb_slice on the 32 bytes of item.event followed by
\* item.data: Ok(Some(event)), Ok(None), Err(ErrorSliceTooShort), or "Abort"
\* where an unwrap or a slice index panics
RbSome(event, variant) ==
    [result |-> "Some", pid |-> event.pid, fd |-> event.fd, ts0 |-> event.ts0,
     ts1 |-> event.ts1, variant |-> variant]
RbAddr(tag, ip, port) ==
    [name |-> IF tag = "Accept" THEN "IncomingConnection" ELSE "OutgoingConnection",
     ip |-> ip, port |-> port]
FromRbSlice(item) ==
    LET event == item.event
        tag == event.tag
        size == event.size
        data == Take(item.data, size)
    IN  IF size < 0 THEN RbSome(event, [name |-> "Error", tag |-> tag, size |-> size])
        ELSE IF Len(item.data) < size THEN [result |-> "ErrorSliceTooShort"]
        ELSE IF tag \in {"Accept", "Connect"}
        THEN IF size < 4 THEN [result |-> "Abort"]
             ELSE IF data[1] + 256 * data[2] = AF_INET
             THEN IF size < 8 THEN [result |-> "Abort"]
                  ELSE RbSome(event, RbAddr(tag, SubSeq(data, 5, 8), 256 * data[3] + data[4]))
             ELSE IF data[1] + 256 * data[2] = AF_INET6
             THEN IF size < 24 THEN [result |-> "Abort"]
                  ELSE RbSome(event, RbAddr(tag, SubSeq(data, 9, 24), 256 * data[3] + data[4]))
             ELSE [result |-> "None"]
        ELSE IF tag = "Read" THEN RbSome(event, [name |-> "IncomingData", data |-> data])
        ELSE IF tag = "Write" THEN RbSome(event, [name |-> "OutgoingData", data |-> data])
        ELSE IF tag = "Close" THEN RbSome(event, [name |-> "Disconnected"])
        ELSE IF tag = "Alias"
        THEN IF IsUtf8(data) THEN RbSome(event, [name |-> "NewApp", alias |-> data])
             ELSE [result |-> "Abort"]
        ELSE IF tag = "Random"
        THEN IF size = 32 THEN RbSome(event, [name |-> "Random", data |-> data])
             ELSE [result |-> "Abort"]
        ELSE [result |-> "None"]

\* "PATH=/bin", "HOME=/root", "BPF_ALIAS=ab", "BPF_ALIAS=node-1", "BPF_ALIAT=zz", "BPF_ALIAS"
ENV_PATH == <<80,65,84,72,61,47,98,105,110>>
ENV_HOME == <<72,79,77,69,61,47,114,111,111,116>>
ENV_ALIAS_AB == BPF_ALIAS \o <<61,97,98>>
ENV_ALIAS_NODE == BPF_ALIAS \o <<61,110,111,100,101,45,49>>
ENV_OTHER == <<66,80,70,95,65,76,73,65,84,61,122,122>>
ENV_BARE == BPF_ALIAS

EnvSamples ==
    { None, Some(<<>>), Some(<<ENV_PATH, ENV_HOME>>),
      Some(<<ENV_ALIAS_AB>>), Some(<<ENV_PATH, ENV_OTHER, ENV_ALIAS_NODE, ENV_ALIAS_AB>>),
      Some(<<ENV_HOME, ENV_BARE>>) }

\* the handlers run with the ring drained by the reader
ProbeNext ==
    \/ Tick /\ UNCHANGED <<selectVars, recorderVars, ringVars, session, dbVars>>
    \/ ReadAll /\ UNCHANGED <<selectVars, recorderVars, ringVars, session, dbVars>>
    \/ \E thread \in ProbeThreads, env \in EnvSamples :
          event_queue = <<>> /\ Execve(thread, env, RING_SIZE) /\ UNCHANGED <<selectVars, recorderVars, ringVars, session, dbVars>>
    \/ \E thread \in ProbeThreads, call \in Syscalls :
          event_queue = <<>> /\ Enter(thread, call) /\ UNCHANGED <<selectVars, recorderVars, ringVars, session, dbVars>>
    \/ \E thread \in ProbeThreads, ret \in ReturnValues :
          event_queue = <<>> /\ Exit(thread, ret, TRUE) /\ UNCHANGED <<selectVars, recorderVars, ringVars, session, dbVars>>
    \/ \E thread \in ProbeThreads, fd \in ProbeFds :
          event_queue = <<>> /\ EnterClose(thread, fd, TRUE) /\ UNCHANGED <<selectVars, recorderVars, ringVars, session, dbVars>>

\* the environments check_env_flag finds an alias in
AliasEnvs == { env \in EnvSamples : IsSome(env) /\ IsSome(EnvScan(Unwrap(env), 0, Len(Unwrap(env)) + 1, ScanStart(RING_SIZE)).found) }

SessionExecve(thread, env) ==
    /\ session.phase = "start"
    /\ Execve(thread, env, RING_SIZE)
    /\ session' = Session("tracked", thread, 0, <<>>)

SessionEnterConnect(call) ==
    /\ session.phase = "tracked"
    /\ call.nr = "connect"
    /\ CheckAddr(call.mem)
    /\ Enter(session.thread, call)
    /\ session' = [session EXCEPT !.phase = "connecting", !.fd = call.fd]

SessionExitConnect(ret) ==
    /\ session.phase = "connecting"
    /\ Exit(session.thread, ret, TRUE)
    /\ session' = [session EXCEPT !.phase = "connected", !.connect = ret]

SessionEnterWrite(call) ==
    /\ session.phase = "connected"
    /\ Len(session.written) < MaxWrites
    /\ call.nr \in {"write", "sendto"}
    /\ call.fd = session.fd
    /\ Enter(session.thread, call)
    /\ session' = [session EXCEPT !.phase = "writing"]

SessionExitWrite(ret) ==
    /\ session.phase = "writing"
    /\ Exit(session.thread, ret, TRUE)
    /\ session' = [session EXCEPT !.phase = "connected", !.written = Append(@, ret)]

SessionClose ==
    /\ session.phase = "connected"
    /\ EnterClose(session.thread, session.fd, TRUE)
    /\ session' = [session EXCEPT !.phase = "closed"]

\* nobody reads the ring during the session: event_queue keeps every event
SessionNext ==
    \/ Tick /\ UNCHANGED <<selectVars, recorderVars, ringVars, session, dbVars>>
    \/ \E thread \in ProbeThreads, env \in AliasEnvs :
          SessionExecve(thread, env) /\ UNCHANGED <<selectVars, recorderVars, ringVars, dbVars>>
    \/ \E call \in Syscalls :
          SessionEnterConnect(call) /\ UNCHANGED <<selectVars, recorderVars, ringVars, dbVars>>
    \/ \E ret \in {0, EINPROGRESS} :
          SessionExitConnect(ret) /\ UNCHANGED <<selectVars, recorderVars, ringVars, dbVars>>
    \/ \E call \in Syscalls :
          SessionEnterWrite(call) /\ UNCHANGED <<selectVars, recorderVars, ringVars, dbVars>>
    \/ \E ret \in 0 .. Len(BUFFER) :
          SessionExitWrite(ret) /\ UNCHANGED <<selectVars, recorderVars, ringVars, dbVars>>
    \/ SessionClose /\ UNCHANGED <<selectVars, recorderVars, ringVars, dbVars>>

-----------------------------------------------------------------------------
(* mina-recorder, the database: DbStream::add on streams of one DbFacade *)

\* the streams, each fed by its own thread
DbStreams == {1, 2, 3}

NoAdd == [pc |-> "idle", id |-> 0, result |-> None]

\* DbFacade::open on an empty database, and DbGroup::add for every stream
DbIdle ==
    /\ messages = 0
    /\ total = 0
    /\ db_messages = EmptyMap
    /\ adds = [stream \in DbStreams |-> NoAdd]
    /\ assigned = <<>>

\* DbStream::add up to the counter: the bytes go to the stream's file and
\* parse_types reads them; its error ends the call
AddWrite(stream, parsed) ==
    /\ adds[stream].pc = "idle"
    /\ messages + Cardinality({ other \in DbStreams : adds[other].pc = "fetch" }) < MaxMessages
    /\ adds' = [adds EXCEPT ![stream] =
                   IF parsed THEN [pc |-> "fetch", id |-> 0, result |-> None]
                   ELSE [pc |-> "idle", id |-> 0, result |-> Some("Err")]]
    /\ UNCHANGED <<messages, total, db_messages, assigned>>

\* MessageId(self.messages.fetch_add(1, SeqCst))
FetchAdd(stream) ==
    /\ adds[stream].pc = "fetch"
    /\ messages' = messages + 1
    /\ assigned' = Append(assigned, messages)
    /\ adds' = [adds EXCEPT ![stream] = [@ EXCEPT !.pc = "put", !.id = messages]]
    /\ UNCHANGED <<total, db_messages>>

\* self.inner.put_message(id, v, tys)
PutMessage(stream) ==
    /\ adds[stream].pc = "put"
    /\ db_messages' = [id \in DOMAIN db_messages \cup {adds[stream].id} |->
                          IF id = adds[stream].id THEN stream ELSE db_messages[id]]
    /\ adds' = [adds EXCEPT ![stream] = [@ EXCEPT !.pc = "total"]]
    /\ UNCHANGED <<messages, total, assigned>>

\* self.inner.set_total::<MESSAGES_CNT>(id.0), then Ok(())
SetTotal(stream) ==
    /\ adds[stream].pc = "total"
    /\ total' = adds[stream].id
    /\ adds' = [adds EXCEPT ![stream] = [@ EXCEPT !.pc = "idle", !.result = Some("Ok")]]
    /\ UNCHANGED <<messages, db_messages, assigned>>

DbNext ==
    \/ \E stream \in DbStreams, parsed \in BOOLEAN :
          AddWrite(stream, parsed) /\ UNCHANGED <<selectVars, recorderVars, ringVars, probeVars>>
    \/ \E stream \in DbStreams :
          FetchAdd(stream) /\ UNCHANGED <<selectVars, recorderVars, ringVars, probeVars>>
    \/ \E stream \in DbStreams :
          PutMessage(stream) /\ UNCHANGED <<selectVars, recorderVars, ringVars, probeVars>>
    \/ \E stream \in DbStreams :
          SetTotal(stream) /\ UNCHANGED <<selectVars, recorderVars, ringVars, probeVars>>

DbInit == SelectIdle /\ RecorderIdle /\ RingIdle /\ ProbeIdle /\ DbIdle

SpecDb == DbInit /\ [][DbNext]_vars

ProbeInit == SelectIdle /\ RecorderIdle /\ RingIdle /\ ProbeIdle /\ DbIdle

SpecProbe == ProbeInit /\ [][ProbeNext]_vars

SessionInit == SelectIdle /\ RecorderIdle /\ RingIdle /\ ProbeIdle /\ DbIdle

SpecSession == SessionInit /\ [][SessionNext]_vars

\* "A=b", a string of 520 bytes, 256 entries before "BPF_ALIAS=ab"
ENV_SHORT == <<65,61,98>>
ENV_LONG == [i \in 1 .. 520 |-> 120]
ENV_MANY == [i \in 1 .. 257 |-> IF i = 257 THEN ENV_ALIAS_AB ELSE ENV_PATH]

\* "BPF_ALIAS=" followed by the byte 0xff
ENV_ALIAS_RAW == BPF_ALIAS \o <<61,255>>

\* the environments of the scan: those above, and environments with a string
\* too short, a string longer than the reservation, an entry and a slot that
\* cannot be read, more entries than the scan examines, an alias that is not
\* UTF-8
ScanEnvs ==
    EnvSamples \cup
    { Some(<<ENV_SHORT, ENV_ALIAS_AB>>), Some(<<ENV_LONG, ENV_ALIAS_NODE>>),
      Some(<<BAD_POINTER, ENV_ALIAS_AB>>), Some(<<ENV_PATH, BAD_SLOT, ENV_ALIAS_AB>>),
      Some(ENV_MANY), Some(<<ENV_ALIAS_RAW>>) }

\* the bytes the ring has left when execve runs: none, room for the pointer
\* slot, for the slot and one string, for the slot and two strings, the ring
RingFree ==
    { 0, RecordSize(ENV_SLOT_SIZE),
      RecordSize(ENV_SLOT_SIZE) + RecordSize(ENV_ENTRY_SIZE),
      RecordSize(ENV_SLOT_SIZE) + RecordSize(ENV_ENTRY_SIZE) + RecordSize(ENV_ENTRY_SIZE),
      RING_SIZE }

\* processes exec while the reader drains the ring
ExecveNext ==
    \/ Tick /\ UNCHANGED <<selectVars, recorderVars, ringVars, session, dbVars>>
    \/ ReadAll /\ UNCHANGED <<selectVars, recorderVars, ringVars, session, dbVars>>
    \/ \E thread \in ProbeThreads, env \in ScanEnvs, free \in RingFree :
          event_queue = <<>> /\ Execve(thread, env, free) /\ UNCHANGED <<selectVars, recorderVars, ringVars, session, dbVars>>

ExecveInit == SelectIdle /\ RecorderIdle /\ RingIdle /\ ProbeIdle /\ DbIdle

SpecExecve == ExecveInit /\ [][ExecveNext]_vars


RecorderInit == SelectIdle /\ RecorderIdle /\ RingIdle /\ ProbeIdle /\ DbIdle

SpecRecorder == RecorderInit /\ [][RecorderNext]_vars

RingBufferInit == SelectIdle /\ RecorderIdle /\ RingInit /\ ProbeIdle /\ DbIdle

SpecRing == RingBufferInit /\ [][RingNext]_vars

SpecRingFault == RingBufferInit /\ [][RingFaultNext]_vars

\* The producer never stops.  read() uses the positions only through their
\* differences and through `pos & mask`, so the model counts them from the
\* last multiple of the capacity the consumer has passed and forgets the
\* records that lie behind the shared consumer position, between two calls of
\* the loop body of read().
Consumed == { i \in 1 .. Len(records) :
                 records[i].pos + RecordSize(records[i].length) <= consumer_pos }
Base == (consumer_pos \div Capacity) * Capacity
Recycle ==
    /\ pc = "read"
    /\ vec = <<>>
    /\ Consumed # {}
    /\ records' = [i \in 1 .. Len(records) - Cardinality(Consumed) |->
                     [records[i + Cardinality(Consumed)] EXCEPT !.pos = @ - Base]]
    /\ observer_data' =
          [x \in { IndexInArray(records[i].pos) : i \in (1 .. Len(records)) \ Consumed } |->
             [observer_data[x] EXCEPT !.id = @ - Cardinality(Consumed)]]
    /\ producer_pos' = producer_pos - Base
    /\ consumer_pos' = consumer_pos - Base
    /\ rb' = [rb EXCEPT !.consumer_pos_value = @ - Base]
    /\ decoded' = <<>>
    /\ slices' = <<>>
    /\ UNCHANGED <<pc, pr_pos, vec, read_total, terminating, exit_code, returned>>

\* the producer of events that parse
RingProducer ==
    /\ \/ \E payload \in Payloads(Capacity) :
             payload.kind = "Some" /\ Reserve(payload.length, payload.kind)
       \/ \E id \in 1..Len(records), discard \in BOOLEAN : Commit(id, discard)
    /\ UNCHANGED <<selectVars, recorderVars, probeVars, dbVars>>

\* the thread of main(): each step of the capture loop
Reader ==
    /\ MainLoop \/ ReadProducerPos \/ ReadHeader \/ Wait
    /\ UNCHANGED <<selectVars, recorderVars, probeVars, dbVars>>

\* forgetting comes first, so that every state is kept in its smallest form
RingLiveNext ==
    \/ ~ENABLED Recycle /\ RingProducer
    \/ ~ENABLED Recycle /\ CtrlC /\ UNCHANGED <<selectVars, recorderVars, probeVars, dbVars>>
    \/ ~ENABLED Recycle /\ Reader
    \/ Recycle /\ UNCHANGED <<selectVars, recorderVars, probeVars, dbVars>>

RingLiveInit == SelectIdle /\ RecorderIdle /\ RingIdle /\ ProbeIdle /\ DbIdle

\* the capture loop is scheduled fairly; the producer and the signal are free
SpecRingLive ==
    RingLiveInit /\ [][RingLiveNext]_vars /\ WF_vars(RingLiveNext /\ (Reader \/ Recycle))

-----------------------------------------------------------------------------
(* The peers: messages written to the connection and their delivery in chunks *)

\* a length-prefixed multistream-select message (lengths below 128)
Frame(s) == <<Len(s)>> \o s

\* "/a\n" and "/b\n": two protocol names
PROTO_A_FRAME == Frame(<<47,97,10>>)
PROTO_B_FRAME == Frame(<<47,98,10>>)
NA_FRAME == Frame(NA_STR \o <<10>>)
\* first bytes of the inner protocol: a two-byte length and one byte
PAYLOAD == <<0,1,255>>

FreeMessages ==
    { PROTO_A_FRAME, PROTO_A_FRAME \o PAYLOAD, PAYLOAD, PROTO_B_FRAME, NA_FRAME }

\* the byte vectors of simultaneous_connect_test, in order, with the direction
\* (incoming) of each poll
RegressionVectors == <<
    [incoming |-> FALSE, data |->
      <<19,47,109,117,108,116,105,115,116,114,101,97,109,47,49,46,48,46,48,10,
        29,47,108,105,98,112,50,112,47,115,105,109,117,108,116,97,110,101,111,117,
        115,45,99,111,110,110,101,99,116,10,7,47,110,111,105,115,101,10>>],
    [incoming |-> TRUE, data |->
      <<19,47,109,117,108,116,105,115,116,114,101,97,109,47,49,46,48,46,48,10,
        29,47,108,105,98,112,50,112,47,115,105,109,117,108,116,97,110,101,111,117,
        115,45,99,111,110,110,101,99,116,10,7,47,110,111,105,115,101,10,
        28,115,101,108,101,99,116,58,49,56,51,51,54,55,51,54,50,55,50,52,56,49,
        57,53,50,48,51,56,10>>],
    [incoming |-> FALSE, data |->
      <<28,115,101,108,101,99,116,58,49,52,56,56,51,53,56,48,53,49,57,52,54,56,
        52,51,56,50,57,55,10,10,114,101,115,112,111,110,100,101,114,10>>],
    [incoming |-> TRUE, data |->
      <<10,105,110,105,116,105,97,116,111,114,10,7,47,110,111,105,115,101,10>>],
    [incoming |-> FALSE, data |-> <<7,47,110,111,105,115,101,10>>],
    [incoming |-> TRUE, data |->
      <<0,32,194,156,74,169,188,134,26,195,22,59,252,86,42,179,241,202,152,68,
        64,245,12,167,148,74,177,252,180,11,57,139,172,52>>] >>

\* the first point of a chunk's token loop at which both proposals are set and
\* equal: Some(bytes of the accumulator that follow the agreeing token)
RECURSIVE AgreePoint(_, _)
AgreeMatch(this, other, r) ==
    LET this1 == [this EXCEPT !.inner.acc = r.acc]
    IN  IF r.kind = "None" \/ r.kind = "Err" THEN None
        ELSE IF r.kind = "String"
        THEN LET t == OnToken(this1, other, r.s) IN
             IF Agreed(t.this, t.other) THEN Some(r.acc) ELSE AgreePoint(t.this, t.other)
        ELSE AgreePoint(this1, other)

AgreePoint(this, other) == AgreeMatch(this, other, LLPoll(this.inner.acc))

Dir(rec, incoming) == IF incoming THEN rec.incoming ELSE rec.outgoing
SetDir(rec, incoming, v) ==
    IF incoming THEN [rec EXCEPT !.incoming = v] ELSE [rec EXCEPT !.outgoing = v]

\* what the pass-through invariant expects after on_data(incoming, chunk) on st
ExpectAfter(ex, st, incoming, chunk) ==
    LET this0 == This(st.hl, incoming)
        other0 == Other(st.hl, incoming)
        carried == this0.inner.acc
        mine == Dir(ex, incoming)
    IN  IF st.error THEN ex
        ELSE IF IsSome(mine) THEN SetDir(ex, incoming, Some(Unwrap(mine) \o chunk))
        ELSE IF ex.agreed THEN SetDir(ex, incoming, Some(carried \o chunk))
        ELSE LET a == AgreePoint([this0 EXCEPT !.inner.acc = carried \o chunk], other0) IN
             IF IsSome(a) THEN [SetDir(ex, incoming, a) EXCEPT !.agreed = TRUE] ELSE ex

SelectInit == SelectIdle /\ RecorderIdle /\ RingIdle /\ ProbeIdle /\ DbIdle

\* a peer writes one message; the reference layer takes it in a single call
Write(incoming, msg) ==
    /\ pending = <<>>
    /\ script = 0
    /\ writes < MaxWrites
    /\ writes' = writes + 1
    /\ pending' = msg
    /\ pending_incoming' = incoming
    /\ chunks' = 0
    /\ whole' = OnData(whole, incoming, msg).st
    /\ UNCHANGED <<state, script, last, expect, poisoned>>
    /\ UNCHANGED <<recorderVars, ringVars, probeVars, dbVars>>

\* the next poll of simultaneous_connect_test
ScriptWrite ==
    /\ pending = <<>>
    /\ writes = 0
    /\ script < Len(RegressionVectors)
    /\ script' = script + 1
    /\ pending' = RegressionVectors[script + 1].data
    /\ pending_incoming' = RegressionVectors[script + 1].incoming
    /\ chunks' = 0
    /\ whole' = OnData(whole, RegressionVectors[script + 1].incoming,
                       RegressionVectors[script + 1].data).st
    /\ UNCHANGED <<state, writes, last, expect, poisoned>>
    /\ UNCHANGED <<recorderVars, ringVars, probeVars, dbVars>>

\* the call state.on_data(chunk) has returned r
Polled(chunk, r) ==
    /\ state' = r.st
    /\ last' = [called |-> TRUE, incoming |-> pending_incoming, chunk |-> chunk,
                carried |-> This(state.hl, pending_incoming).inner.acc,
                hl |-> state.hl, error |-> state.error, output |-> r.output]
    /\ expect' = ExpectAfter(expect, state, pending_incoming, chunk)
    /\ poisoned' = IF IsSome(r.output.error) THEN Some(pending_incoming) ELSE poisoned

\* the next k bytes of the message reach State::on_data as one chunk
Deliver(k) ==
    /\ k \in 1..Len(pending)
    /\ chunks + 1 = MaxChunks => k = Len(pending)
    /\ chunks' = chunks + 1
    /\ Polled(Take(pending, k), OnData(state, pending_incoming, Take(pending, k)))
    /\ pending' = Drain(pending, k)
    /\ UNCHANGED <<whole, pending_incoming, writes, script>>
    /\ UNCHANGED <<recorderVars, ringVars, probeVars, dbVars>>

SelectNext ==
    \/ \E incoming \in BOOLEAN, msg \in FreeMessages : Write(incoming, msg)
    \/ ScriptWrite
    \/ \E k \in 1..Len(pending) : Deliver(k)

SpecSelect == SelectInit /\ [][SelectNext]_vars

\* one token in its message: "/multistream/1.0.0\n", "/libp2p/simultaneous-connect\n",
\* "select:1\n", "/a\n", "/b\n", "na\n", the two markers, and "initiator"
\* as a length-prefixed string without the newline
TokenFrames ==
    { Frame(MULTISTREAM_PREFIX \o <<49,46,48,46,48,10>>),
      Frame(SIMULTANEOUS_CONNECT_PREFIX \o <<10>>),
      Frame(SELECT_PREFIX \o <<58,49,10>>),
      PROTO_A_FRAME, PROTO_B_FRAME, NA_FRAME,
      INITIATOR_FRAME, RESPONDER_FRAME, Frame(INITIATOR_STR) }

\* the states of one direction between two messages: the flag, the proposal
OneDirections ==
    { [inner |-> [acc |-> <<>>], simultaneous_connect |-> flag, done |-> done] :
         flag \in BOOLEAN, done \in {None, Some(<<47,97>>), Some(<<47,98>>)} }

\* a layer in any selection state is about to take one message of one token
TokenInit ==
    /\ \E incoming \in OneDirections, outgoing \in OneDirections :
          state = [StateDefault EXCEPT !.hl = [incoming |-> incoming, outgoing |-> outgoing]]
    /\ whole = state
    /\ pending \in TokenFrames
    /\ pending_incoming \in BOOLEAN
    /\ chunks = 0
    /\ writes = 0
    /\ script = 0
    /\ last = NoLast
    /\ expect = [agreed |-> FALSE, incoming |-> None, outgoing |-> None]
    /\ poisoned = None
    /\ RecorderIdle /\ RingIdle /\ ProbeIdle /\ DbIdle

\* the message reaches State::on_data
TokenNext == Deliver(Len(pending))

SpecToken == TokenInit /\ [][TokenNext]_vars

\* byte streams of one direction: two messages; a marker and a message; a
\* marker, a message that is not UTF-8 and a message; 130 bytes that are not
\* UTF-8 behind a two-byte length; a length prefix that never ends
ByteStreams ==
    { PROTO_A_FRAME \o NA_FRAME,
      INITIATOR_FRAME \o PROTO_B_FRAME,
      RESPONDER_FRAME \o <<2,255,254>> \o PROTO_A_FRAME,
      <<130,1>> \o [i \in 1 .. 130 |-> 255] \o <<10>>,
      <<255,255,255>> }

\* what the accumulator can hold when poll is called: the bytes of a stream
\* that have arrived
AccSamples ==
    UNION { { SubSeq(stream, 1, k) : k \in 0 .. Len(stream) } : stream \in ByteStreams }

\* a tokenizer with some bytes in its accumulator
TokenizerInit ==
    /\ pending \in AccSamples
    /\ state = StateDefault
    /\ whole = StateDefault
    /\ pending_incoming = FALSE
    /\ chunks = 0
    /\ writes = 0
    /\ script = 0
    /\ last = NoLast
    /\ expect = [agreed |-> FALSE, incoming |-> None, outgoing |-> None]
    /\ poisoned = None
    /\ RecorderIdle /\ RingIdle /\ ProbeIdle /\ DbIdle

\* one call of ll::State::poll on the accumulator; the loop of hl::State::poll
\* calls it again until it returns None or an error
TokenizerPoll ==
    /\ last.called => last.output.kind \notin {"None", "Err"}
    /\ pending' = LLPoll(pending).acc
    /\ last' = [NoLast EXCEPT !.called = TRUE, !.carried = pending, !.output = LLPoll(pending)]
    /\ UNCHANGED <<state, whole, pending_incoming, chunks, writes, script, expect, poisoned>>
    /\ UNCHANGED <<recorderVars, ringVars, probeVars, dbVars>>

TokenizerNext == TokenizerPoll

SpecTokenizer == TokenizerInit /\ [][TokenizerNext]_vars

-----------------------------------------------------------------------------
(* Properties of the multistream-select layer *)

\* what a layer has emitted: the recorded tokens and what the inner layer got
Observable(st) == [tokens |-> st.stream, inner |-> st.inner]

\* C1: chunking invariance.  Whenever every message written so far has been
\* delivered completely, the layer fed in chunks has recorded the same token
\* sequence and reached the same agreement outcome (whether, on which protocol,
\* with which forwarded bytes) as the layer fed each message in a single call.
ChunkingInvariance ==
    pending = <<>> => Observable(state) = Observable(whole)

\* the bytes of a direction the inner layer has been handed so far
InnerBytes(st, d) == IF IsSome(st.inner) THEN Dir(Unwrap(st.inner), d) ELSE <<>>

\* C2: pass-through.  Once a token has made the two proposals equal, every byte
\* of a direction that follows (the rest of that chunk, and each later chunk) is
\* held by the inner layer, in order, each byte once.
PassThroughInvariant ==
    \A d \in BOOLEAN :
        IsSome(Dir(expect, d)) => InnerBytes(state, d) = Unwrap(Dir(expect, d))

\* protocol names that are none of the negotiation keywords
ProposalSamples == { NOISE_STR, <<47,97>>, <<47,98>>, <<>> }

\* C3: a poll reports agreement only if, when it is called, both directions have
\* a proposed protocol and the two are equal (and it reports that protocol); a
\* protocol name offered while either direction is in simultaneous-connect
\* negotiation changes no proposal; in the regression exchange no poll before the
\* last one reports agreement, agreement needs both proposals to be /noise with
\* neither side in simultaneous-connect, and the last poll reports /noise.
AgreementOnlyOnEqualProposals ==
    /\ (last.called /\ IsSome(last.output.agreed)) =>
          LET this == This(last.hl, last.incoming)
              other == Other(last.hl, last.incoming)
          IN  /\ IsSome(this.done) /\ IsSome(other.done)
              /\ this.done = other.done
              /\ Unwrap(last.output.agreed).protocol = Unwrap(this.done)
    /\ \A d \in BOOLEAN, s \in ProposalSamples :
          LET this == This(state.hl, d)
              other == Other(state.hl, d)
              t == OnToken(this, other, s)
          IN  (this.simultaneous_connect \/ other.simultaneous_connect) =>
                  (t.this.done = this.done /\ t.other.done = other.done)
    /\ (script > 0 /\ IsSome(state.inner)) =>
          /\ script = Len(RegressionVectors)
          /\ Unwrap(state.inner).name = NOISE_STR
          /\ state.hl.incoming.done = Some(NOISE_STR)
          /\ state.hl.outgoing.done = Some(NOISE_STR)
          /\ ~state.hl.incoming.simultaneous_connect
          /\ ~state.hl.outgoing.simultaneous_connect
    /\ (script = Len(RegressionVectors) /\ pending = <<>>) =>
          /\ IsSome(state.inner)
          /\ Unwrap(state.inner).name = NOISE_STR

\* C3 witness: the regression exchange has been delivered completely and its last
\* poll reported agreement on /noise
RegressionAgreedOnNoise ==
    /\ script = Len(RegressionVectors)
    /\ pending = <<>>
    /\ IsSome(last.output.agreed)
    /\ Unwrap(last.output.agreed).protocol = NOISE_STR
    /\ IsSome(state.inner)

\* C4: a poll that reports agreement forwards the carried-over accumulator
\* followed by the chunk, each byte once; after the regression exchange the inner
\* layer holds exactly the 34 bytes of the last vector.
ForwardedIsUnconsumedBytes ==
    /\ (last.called /\ IsSome(last.output.agreed)) =>
          Unwrap(last.output.agreed).data = last.carried \o last.chunk
    /\ (script = Len(RegressionVectors) /\ pending = <<>>) =>
          /\ IsSome(state.inner)
          /\ Unwrap(state.inner).incoming = RegressionVectors[Len(RegressionVectors)].data

\* C5: after a decoding error in one direction, a chunk of the other direction
\* is still tokenized and its tokens are recorded.
ErrorPoisonsOneDirection ==
    [][ ( /\ IsSome(poisoned)
          /\ chunks' = chunks + 1
          /\ pending_incoming # Unwrap(poisoned) ) =>
        LET chunk == Take(pending, Len(pending) - Len(pending'))
            p == HlPoll(state.hl, pending_incoming, chunk)
        IN  state'.stream = StreamAdd(state.stream, pending_incoming, p.output.tokens)
      ]_vars

-----------------------------------------------------------------------------
(* Properties of the ring consumer *)

\* the ids of the records among the first n that lie below the consumer
\* position and were not discarded, in ring order
RECURSIVE Yielded(_)
Yielded(n) ==
    IF n = 0 THEN <<>>
    ELSE IF records[n].pos < rb.consumer_pos_value /\ records[n].status # "discarded"
         THEN Append(Yielded(n - 1), n)
         ELSE Yielded(n - 1)

\* C8: every committed, non-discarded record is handed to the decoder exactly
\* once and in ring order: at every moment the decoder has seen exactly the
\* non-discarded records below the consumer position, each once, in position
\* order, and no record below the consumer position is still BUSY, whatever
\* number of passes (stopped at BUSY or at the read threshold) it took
DecodedOnceInRingOrder ==
    /\ decoded = Yielded(Len(records))
    /\ \A i \in 1..Len(records) :
          records[i].pos < rb.consumer_pos_value => records[i].status # "busy"

\* C8 case: a pass has ended at a BUSY record while a committed record lies
\* behind it, after an earlier record was delivered
BusyRecordHoldsBackCommitted ==
    /\ pc = "wait"
    /\ Len(decoded) >= 1
    /\ \E i, j \in 1..Len(records) :
          /\ i < j
          /\ records[i].pos = rb.consumer_pos_value
          /\ records[i].status = "busy"
          /\ records[j].status = "committed"

\* C9: once read has seen the producer position below the consumer position
\* the process does not read again and does not end with status 0
UninitializedReadIsFatal ==
    returned = Some("Err") =>
        /\ pc \notin {"read", "header", "wait", "terminated"}
        /\ exit_code # Some(0)

\* whether a read pass started now would consume the record at the consumer
\* position: there are unread bytes and their first header is not BUSY
HeadRecordReadable ==
    /\ producer_pos > rb.consumer_pos_value
    /\ ~Load(IndexInArray(rb.consumer_pos_value)).busy

\* C11: after Ctrl-C the reader leaves its wait and makes one more read pass
\* before the loop exits, so read_blocking hands the empty result of a
\* cancelled wait to main() only when no committed record awaits at the
\* consumer position
CancelledWaitDrainsOnePass ==
    [][(pc = "wait" /\ terminating /\ pc' = "main") => ~HeadRecordReadable]_vars

\* C10: the process exits for overflow only when the unread distance has
\* reached the capacity, and goes on to a header only when it has not
OverflowExactlyAtCapacity ==
    /\ pc = "exited" => pr_pos - rb.consumer_pos_value >= Capacity
    /\ pc = "header" => pr_pos - rb.consumer_pos_value < Capacity

-----------------------------------------------------------------------------
(* Properties of the recorder loop *)

\* the on_connect and on_disconnect calls made for one (pid, fd), in order
IsLifecycleCall(c, pid, fd) ==
    c.op \in {"on_connect", "on_disconnect"} /\ c.pid = pid /\ c.fd = fd
KeyCalls(pid, fd) == SelectSeq(calls, LAMBDA c : IsLifecycleCall(c, pid, fd))

\* C6: for every (pid, fd) the on_connect and on_disconnect calls alternate,
\* starting with on_connect; a connection is active exactly while the key is in
\* the tracked map.
ConnectDisconnectAlternate ==
    \A pid \in Pids, fd \in Fds :
        LET s == KeyCalls(pid, fd) IN
        /\ \A i \in 1..Len(s) :
              s[i].op = IF i % 2 = 1 THEN "on_connect" ELSE "on_disconnect"
        /\ (Len(s) % 2 = 1) <=> (<<pid, fd>> \in DOMAIN p2p_cns)

\* C6 witness: some (pid, fd) has been connected, disconnected and connected again
ConnectedTwice ==
    \E pid \in Pids, fd \in Fds : Len(KeyCalls(pid, fd)) >= 3

\* C7: a connection event on a recorded port for an aliased pid whose (pid, fd)
\* is already tracked makes exactly two calls, on_disconnect with the address
\* registered before and then on_connect with the new address, and leaves the
\* new address in the tracked map.
ReconnectDisconnectsOldFirst ==
    [][ \A pid \in Pids, fd \in Fds, addr \in Addrs, incoming \in BOOLEAN :
          ( /\ pid \in DOMAIN apps
            /\ <<pid, fd>> \in DOMAIN p2p_cns
            /\ MoreEvents
            /\ IF incoming
               THEN IncomingConnection(pid, fd, addr)
                    /\ (addr.port = P2P_PORT \/ addr.port >= EPHEMERAL_PORT)
               ELSE OutgoingConnection(pid, fd, addr) /\ addr.port = P2P_PORT )
          => /\ Len(calls') = Len(calls) + 2
             /\ SubSeq(calls', 1, Len(calls)) = calls
             /\ calls'[Len(calls) + 1].op = "on_disconnect"
             /\ calls'[Len(calls) + 1].addr = p2p_cns[<<pid, fd>>]
             /\ calls'[Len(calls) + 1].pid = pid
             /\ calls'[Len(calls) + 1].fd = fd
             /\ calls'[Len(calls) + 2].op = "on_connect"
             /\ calls'[Len(calls) + 2].addr = addr
             /\ calls'[Len(calls) + 2].incoming = incoming
             /\ calls'[Len(calls) + 2].pid = pid
             /\ calls'[Len(calls) + 2].fd = fd
             /\ p2p_cns'[<<pid, fd>>] = addr
      ]_vars

\* C7 witness: a connection event has disconnected an old address and connected
\* a different one on the same (pid, fd)
ReconnectedToNewAddress ==
    \E i \in 1..(Len(calls) - 1) :
        /\ calls[i].op = "on_disconnect"
        /\ calls[i].event \in {"IncomingConnection", "OutgoingConnection"}
        /\ calls[i + 1].op = "on_connect"
        /\ calls[i + 1].pid = calls[i].pid
        /\ calls[i + 1].fd = calls[i].fd
        /\ calls[i + 1].addr # calls[i].addr
        /\ i + 1 = Len(calls)
        /\ p2p_cns[<<calls[i].pid, calls[i].fd>>] = calls[i + 1].addr

-----------------------------------------------------------------------------
\* properties of the kernel probe

SessionSocket == SocketId(session.fd, session.thread.pid)
EventOf(i) == event_queue[i].event

\* C12: a tracked pid that connects an fd successfully, writes to it and closes
\* it leaves exactly these events in the ring, in this order: (after its Alias)
\* one Connect, one Write per write whose size and payload are the bytes
\* written, one Close; and its socket id is in connections exactly between the
\* connect exit and the close entry
ConnectWriteCloseInOrder ==
    /\ session.phase \in {"tracked", "connecting"} =>
          /\ Len(event_queue) = 1
          /\ session.phase = "connecting" => SessionSocket \notin DOMAIN connections
    /\ (session.phase \in {"connected", "writing", "closed"} /\ session.connect = 0) =>
          /\ Len(event_queue) =
                2 + Len(session.written) + (IF session.phase = "closed" THEN 1 ELSE 0)
          /\ EventOf(1).tag = "Alias"
          /\ EventOf(2).tag = "Connect"
          /\ EventOf(2).fd = session.fd
          /\ EventOf(2).pid = session.thread.pid
          /\ EventOf(2).size >= 0
          /\ \A i \in 1 .. Len(session.written) :
                /\ EventOf(2 + i).tag = "Write"
                /\ EventOf(2 + i).fd = session.fd
                /\ EventOf(2 + i).pid = session.thread.pid
                /\ EventOf(2 + i).size = session.written[i]
                /\ event_queue[2 + i].data = Take(BUFFER, session.written[i])
          /\ session.phase = "closed" =>
                /\ EventOf(Len(event_queue)).tag = "Close"
                /\ EventOf(Len(event_queue)).fd = session.fd
                /\ EventOf(Len(event_queue)).pid = session.thread.pid
          /\ SessionSocket \in DOMAIN connections <=> session.phase # "closed"

SessionClosedAfterWrites ==
    /\ session.phase = "closed"
    /\ session.connect = 0
    /\ Len(session.written) >= 2
    /\ Len(event_queue) = 3 + Len(session.written)

\* the events a step has put into the ring
Emitted == IF event_queue' = event_queue THEN <<>> ELSE event_queue'

\* C13: a Read or Write event, success or error, is emitted only for a
\* (pid, fd) whose socket id is in connections when the syscall exits
DataEventOnlyForLiveSocket ==
    [][\A i \in 1 .. Len(Emitted) :
          Emitted[i].event.tag \in {"Read", "Write"} =>
              SocketId(Emitted[i].event.fd, Emitted[i].event.pid) \in DOMAIN connections]_vars

WriteToUnknownFdDropped ==
    /\ last_handler.handler = "exit"
    /\ last_handler.call.nr = "write"
    /\ last_handler.pending
    /\ last_handler.ret > 0
    /\ SocketId(last_handler.call.fd, last_handler.thread.pid) \notin DOMAIN connections
    /\ event_queue = <<>>

\* C14: a connect to an AF_INET or AF_INET6 address that returns EINPROGRESS
\* emits a Connect event with a non-negative size and puts the socket id into
\* connections; the writes on the fd that follow are emitted as Write events
EinprogressConnectIsSuccess ==
    (session.phase \in {"connected", "writing"} /\ session.connect = EINPROGRESS) =>
        /\ Len(event_queue) = 2 + Len(session.written)
        /\ EventOf(2).tag = "Connect"
        /\ EventOf(2).fd = session.fd
        /\ EventOf(2).pid = session.thread.pid
        /\ EventOf(2).size >= 0
        /\ SessionSocket \in DOMAIN connections
        /\ \A i \in 1 .. Len(session.written) :
              /\ EventOf(2 + i).tag = "Write"
              /\ EventOf(2 + i).fd = session.fd
              /\ EventOf(2 + i).size = session.written[i]

WriteAfterEinprogressReported ==
    /\ session.phase = "connected"
    /\ session.connect = EINPROGRESS
    /\ Len(session.written) >= 1
    /\ EventOf(Len(event_queue)).tag = "Write"

\* the entries "BPF_ALIAS=<name>" of an environment, and the name of the first
AliasEntries(env) ==
    { i \in 1 .. Len(env) : i <= ENV_SCAN_LIMIT /\ StartsWith(env[i], BPF_ALIAS \o <<61>>) }
FirstAliasName(env) ==
    Drain(env[CHOOSE i \in AliasEntries(env) : \A j \in AliasEntries(env) : i <= j],
          ALIAS_NAME_OFFSET)

\* C15: an execve whose environment has an entry BPF_ALIAS=<name> among its
\* first 256 entries emits exactly one Alias event for the pid, the payload of
\* which decodes to <name> and nothing else, and leaves the pid tracked
AliasEventCarriesName ==
    [][\A thread \in ProbeThreads, env \in EnvSamples :
          (/\ IsSome(env)
           /\ AliasEntries(Unwrap(env)) # {}
           /\ event_queue = <<>>
           /\ Execve(thread, env, RING_SIZE)) =>
              /\ Len(event_queue') = 1
              /\ event_queue'[1].event.tag = "Alias"
              /\ event_queue'[1].event.pid = thread.pid
              /\ FromRbSliceAlias(event_queue'[1]) = Some(FirstAliasName(Unwrap(env)))
              /\ thread.pid \in DOMAIN pid_flags'
              /\ pid_flags'[thread.pid] = TRACKED]_vars

\* C16: SocketId maps no two (fd, pid) pairs of 32-bit values to one id:
\* connect, accept, the read/write lookup and close compute it alike, so the
\* ids in connections are the ids of the open sockets and of no other pair
SocketIdInjective ==
    /\ \A fd \in U32, pid \in U32 :
          SocketId(fd, pid) \in DOMAIN connections => <<fd, pid>> \in sockets
    /\ \A socket \in sockets : SocketId(socket[1], socket[2]) \in DOMAIN connections

SwappedFdAndPidBothOpen ==
    /\ <<1, 2>> \in sockets
    /\ <<2, 1>> \in sockets
    /\ Cardinality(DOMAIN connections) >= 2

\* the step is the enter handler, the exit handler of a syscall of the thread
EnterStep(thread) == thread.tid \notin DOMAIN running /\ thread.tid \in DOMAIN running'
ExitStep(thread) == thread.tid \in DOMAIN running /\ thread.tid \notin DOMAIN running'

\* C17: the exit of a syscall of a tracked thread removes the thread's pending
\* record whatever the return value; an enter emits nothing and an exit at most
\* one event; an exit with EAGAIN emits nothing and removes the record; an
\* exit that finds no pending record emits nothing
ExitConsumesPendingRecord ==
    [][\A thread \in ProbeThreads :
          /\ EnterStep(thread) => Emitted = <<>>
          /\ ExitStep(thread) =>
                /\ Len(Emitted) <= 1
                /\ CheckPid(thread.pid) => thread.tid \notin DOMAIN context_parameters'
                /\ last_handler'.ret = EAGAIN => Emitted = <<>>
                /\ thread.tid \notin DOMAIN context_parameters => Emitted = <<>>]_vars

EagainWriteOnOpenSocketConsumed ==
    /\ last_handler.handler = "exit"
    /\ last_handler.call.nr = "write"
    /\ last_handler.ret = EAGAIN
    /\ last_handler.pending
    /\ <<last_handler.call.fd, last_handler.thread.pid>> \in sockets
    /\ last_handler.thread.tid \notin DOMAIN context_parameters
    /\ event_queue = <<>>

\* C18: a socket id is in connections only if it is the id of a socket the
\* pid opened (a connect on the fd returned 0 or EINPROGRESS, or an accept4
\* returned the fd, the address being AF_INET or AF_INET6) and has not closed
\* since; a failed connect or accept4 inserts nothing; the id of an accepted
\* socket is built from the returned fd, not from the listening fd
LiveOnlyIfOpened ==
    [][/\ \A socket_id \in DOMAIN connections' :
             \E socket \in sockets' : socket_id = SocketId(socket[1], socket[2])
       /\ \A thread \in ProbeThreads :
             ExitStep(thread) =>
                /\ (running[thread.tid].nr \in {"connect", "accept4"}
                      /\ last_handler'.ret < 0 /\ last_handler'.ret # EINPROGRESS) =>
                      connections' = connections
                /\ (running[thread.tid].nr = "accept4" /\ last_handler'.ret >= 0) =>
                      /\ DOMAIN connections' \ DOMAIN connections
                             \subseteq {SocketId(last_handler'.ret, thread.pid)}
                      /\ SocketId(running[thread.tid].fd, thread.pid) \in DOMAIN connections'
                             => SocketId(running[thread.tid].fd, thread.pid) \in DOMAIN connections]_vars

AcceptedSocketOpen ==
    /\ last_handler.handler = "exit"
    /\ last_handler.call.nr = "accept4"
    /\ last_handler.ret = 1
    /\ last_handler.pending
    /\ SocketId(1, last_handler.thread.pid) \in DOMAIN connections
    /\ SocketId(last_handler.call.fd, last_handler.thread.pid) \notin DOMAIN connections
    /\ SocketId(2, last_handler.thread.pid) \notin DOMAIN connections

\* the step is enter_close: a handler has run and it was the close handler
CloseStep ==
    /\ event_queue = <<>>
    /\ ktime' = ktime
    /\ last_handler'.handler = "close"

\* C19: enter_close of a tracked pid: when the socket id is not in connections
\* it emits nothing and changes nothing; otherwise it removes the id and emits
\* exactly one Close event with the fd, ts0 = ts1 and size 0. After it the id is
\* absent, so a second close emits nothing and later reads and writes are dropped
CloseRemovesAndEmitsOnce ==
    [][(CloseStep /\ CheckPid(last_handler'.thread.pid)) =>
          LET fd == last_handler'.call.fd
              pid == last_handler'.thread.pid
          IN  /\ SocketId(fd, pid) \notin DOMAIN connections'
              /\ IF SocketId(fd, pid) \notin DOMAIN connections
                 THEN /\ event_queue' = <<>>
                      /\ UNCHANGED <<pid_flags, context_parameters, connections>>
                 ELSE /\ DOMAIN connections' = DOMAIN connections \ {SocketId(fd, pid)}
                      /\ Len(event_queue') = 1
                      /\ event_queue'[1].event.tag = "Close"
                      /\ event_queue'[1].event.fd = fd
                      /\ event_queue'[1].event.pid = pid
                      /\ event_queue'[1].event.ts0 = event_queue'[1].event.ts1
                      /\ event_queue'[1].event.ts0 = ktime
                      /\ event_queue'[1].event.size = 0
                      /\ event_queue'[1].data = <<>>]_vars

ClosedAfterClockTick ==
    /\ last_handler.handler = "close"
    /\ Len(event_queue) = 1
    /\ event_queue[1].event.tag = "Close"
    /\ event_queue[1].event.ts1 = 1
    /\ SocketId(last_handler.call.fd, last_handler.thread.pid) \notin DOMAIN connections

\* the step is an enter, exit or close handler run for a pid that has no
\* entry in the pid map or an entry other than 0xffffffff
UntrackedStep ==
    /\ event_queue = <<>>
    /\ ktime' = ktime
    /\ last_handler'.handler \in {"enter", "exit", "close"}
    /\ \/ last_handler'.thread.pid \notin DOMAIN pid_flags
       \/ pid_flags[last_handler'.thread.pid] # TRACKED

\* C20: an enter, exit or close handler that runs for a pid that is not
\* tracked emits no event and leaves context_parameters and connections as
\* they were
UntrackedPidLeavesNoTrace ==
    [][UntrackedStep =>
          /\ event_queue' = <<>>
          /\ UNCHANGED <<context_parameters, connections, pid_flags>>]_vars

UntrackedWriteBesideTrackedSocket ==
    /\ last_handler.handler = "exit"
    /\ last_handler.call.nr = "write"
    /\ last_handler.ret > 0
    /\ last_handler.thread.pid \notin DOMAIN pid_flags
    /\ \E socket \in sockets : socket[1] = last_handler.call.fd
    /\ event_queue = <<>>
    /\ context_parameters = EmptyMap


\* C21: when an execve handler has returned, every scratch reservation it made
\* (the pointer slot, the string slot of each entry it examined) is discarded,
\* none is left busy and none is committed, whatever ended the scan; the ring
\* then holds at most the Alias event
ScratchAlwaysDiscarded ==
    /\ \A i \in DOMAIN scratch : scratch[i].state = "discard"
    /\ \A i \in DOMAIN event_queue : event_queue[i].event.tag = "Alias"
    /\ last_handler.handler = "execve" /\ last_handler.call.mem # None /\ scratch # <<>> =>
          /\ scratch[1].size = ENV_SLOT_SIZE
          /\ \A i \in 2 .. Len(scratch) : scratch[i].size = ENV_ENTRY_SIZE

\* the alias was found, both reservations were made and the ring had no room
\* for the event
AliasFoundSendFailed ==
    /\ last_handler.handler = "execve"
    /\ last_handler.call.mem = Some(<<ENV_SHORT, ENV_ALIAS_AB>>)
    /\ Len(scratch) = 3
    /\ event_queue = <<>>
    /\ last_handler.thread.pid \notin DOMAIN pid_flags

\* C22: a read pass that loads a BUSY header at the consumer position ends
\* there: neither the reader's position nor the shared consumer position
\* moves, nothing is decoded, and the pass is over; at no time has a record
\* behind a BUSY record been decoded
BusyHeaderEndsPass ==
    /\ [](\A i, j \in 1 .. Len(records) :
             i < j /\ records[i].status = "busy" =>
                \A k \in DOMAIN decoded : decoded[k] # j)
    /\ [][(pc = "header" /\ Load(IndexInArray(rb.consumer_pos_value)).busy) =>
             /\ rb'.consumer_pos_value = rb.consumer_pos_value
             /\ consumer_pos' = consumer_pos
             /\ decoded' = decoded
             /\ pc' # "header" => pc' \in {"wait", "read"} /\ vec' = <<>> /\ read_total' = 0]_vars

\* the reader has been woken and is at the header of a record that is BUSY,
\* with nothing read in this pass, records decoded by earlier passes and a
\* committed record behind the BUSY one
BusyHeaderExaminedAgain ==
    /\ pc = "header"
    /\ vec = <<>>
    /\ Len(decoded) >= 1
    /\ Load(IndexInArray(rb.consumer_pos_value)).busy
    /\ \E j \in 1 .. Len(records) :
          records[j].pos > rb.consumer_pos_value /\ records[j].status = "committed"

\* C23: when the reader passes a record whose header is not BUSY, its
\* position grows by 8 plus the record's length rounded up to a multiple of 8
\* and the shared consumer position is set to it, whether the record was
\* discarded or not; from_rb_slice is called if and only if the record was
\* not discarded, with the slice of `length` bytes that starts 8 bytes after
\* the record's header, at the record's position modulo the capacity
NonBusyRecordAdvancesAndDecodes ==
    [][(/\ pc = "header"
        /\ pc' # "header"
        /\ ~Load(IndexInArray(rb.consumer_pos_value)).busy) =>
          \E id \in 1 .. Len(records) :
             /\ records[id].pos = rb.consumer_pos_value
             /\ rb'.consumer_pos_value =
                   rb.consumer_pos_value + 8 + ((records[id].length + 7) \div 8) * 8
             /\ consumer_pos' = rb'.consumer_pos_value
             /\ slices' = IF records[id].status = "discarded" THEN slices
                          ELSE Append(slices, [data_offset |-> (records[id].pos % Capacity) + 8,
                                               length |-> records[id].length])]_vars

\* the reader has passed a discarded record and has handed a record that
\* lies beyond the end of the ring to the decoder, at its wrapped offset
DiscardedPassedAndWrappedDecoded ==
    /\ \E d \in 1 .. Len(records) :
          records[d].status = "discarded" /\ records[d].pos < rb.consumer_pos_value
    /\ \E id \in 1 .. Len(records) :
          /\ records[id].pos >= Capacity
          /\ records[id].pos < rb.consumer_pos_value
          /\ records[id].length % 8 # 0
          /\ slices # <<>>
          /\ slices[Len(slices)] = [data_offset |-> records[id].pos - Capacity + 8,
                                    length |-> records[id].length]

\* C24: the selection state after a message of one token, this being the
\* direction of the message: a token that starts with "/multistream/" changes
\* nothing; one that starts with "/libp2p/simultaneous-connect" sets the flag
\* of this direction; "na" clears the flag of the other direction if it is
\* set and else the proposal of the other direction, and nothing of this
\* direction; a token that starts with "select" clears the flag of this
\* direction; any other token becomes the proposal of this direction if
\* neither flag is set and is ignored otherwise; the markers "\ninitiator\n"
\* and "\nresponder\n" change nothing
TokenTransition ==
    (last.called /\ Len(last.output.tokens) = 1) =>
        LET this == This(last.hl, last.incoming)
            other == Other(last.hl, last.incoming)
            this_after == This(state.hl, last.incoming)
            other_after == Other(state.hl, last.incoming)
            token == last.output.tokens[1]
        IN  IF last.chunk \in {INITIATOR_FRAME, RESPONDER_FRAME}
                  \/ StartsWith(token, MULTISTREAM_PREFIX)
            THEN this_after = this /\ other_after = other
            ELSE IF StartsWith(token, SIMULTANEOUS_CONNECT_PREFIX)
            THEN /\ this_after = [this EXCEPT !.simultaneous_connect = TRUE]
                 /\ other_after = other
            ELSE IF token = NA_STR
            THEN /\ this_after = this
                 /\ other.simultaneous_connect =>
                       other_after = [other EXCEPT !.simultaneous_connect = FALSE]
                 /\ ~other.simultaneous_connect => other_after = [other EXCEPT !.done = None]
            ELSE IF StartsWith(token, SELECT_PREFIX)
            THEN /\ this_after = [this EXCEPT !.simultaneous_connect = FALSE]
                 /\ other_after = other
            ELSE /\ other_after = other
                 /\ this_after = IF this.simultaneous_connect \/ other.simultaneous_connect
                                 THEN this
                                 ELSE [this EXCEPT !.done = Some(token)]

\* "na" has reached a layer whose other direction is in simultaneous connect
\* with a proposal: the flag is cleared and the proposal is kept
NaClearedFlagKeptProposal ==
    /\ last.called
    /\ last.output.tokens = <<NA_STR>>
    /\ Other(last.hl, last.incoming).simultaneous_connect
    /\ IsSome(Other(last.hl, last.incoming).done)
    /\ ~Other(state.hl, last.incoming).simultaneous_connect
    /\ Other(state.hl, last.incoming).done = Other(last.hl, last.incoming).done

\* the length prefix of an accumulator: the bytes up to the first one below
\* 128, and the length they encode (prefixes of one and two bytes)
HasPrefix(acc) == \E i \in 1 .. Len(acc) : acc[i] < 128
PrefixLen(acc) == CHOOSE i \in 1 .. Len(acc) : acc[i] < 128 /\ \A j \in 1 .. i - 1 : acc[j] >= 128
PrefixValue(acc) ==
    IF PrefixLen(acc) = 1 THEN acc[1] ELSE (acc[1] - 128) + 128 * acc[2]

\* C25: a call of the tokenizer on an accumulator that starts with
\* "\ninitiator\n" or "\nresponder\n" removes exactly these 11 bytes; on one
\* whose length prefix is not complete, or that holds fewer than L bytes
\* after the prefix, it emits nothing and leaves the accumulator as it is; on
\* one that holds a complete message it emits one output and removes exactly
\* the prefix and the L bytes
TokenizerConsumesWholeTokens ==
    last.called =>
        LET acc == last.carried
            result == last.output
        IN  IF StartsWith(acc, INITIATOR_FRAME) \/ StartsWith(acc, RESPONDER_FRAME)
            THEN /\ result.kind \in {"InitiatorToken", "ResponderToken"}
                 /\ Len(pending) = Len(acc) - 11
                 /\ acc = SubSeq(acc, 1, 11) \o pending
            ELSE IF ~HasPrefix(acc) \/ Len(acc) - PrefixLen(acc) < PrefixValue(acc)
            THEN result.kind = "None" /\ pending = acc
            ELSE /\ result.kind \in {"String", "Err"}
                 /\ Len(pending) = Len(acc) - PrefixLen(acc) - PrefixValue(acc)
                 /\ acc = SubSeq(acc, 1, PrefixLen(acc) + PrefixValue(acc)) \o pending

\* the tokenizer was called with a two-byte length prefix and all but the
\* last byte of its message, and has kept the 131 bytes
PartialLongFrameKept ==
    /\ last.called
    /\ Len(last.carried) = 131
    /\ last.carried[1] = 130
    /\ last.output.kind = "None"
    /\ pending = last.carried

\* C26: for every record the probe has put into the ring the parser returns
\* a result, Ok or the slice-too-short error, and does not abort
EmittedRecordsParse ==
    \A i \in 1 .. Len(event_queue) : FromRbSlice(event_queue[i]).result # "Abort"

\* C27: the reader does not advance past a submitted record whose slice the
\* decoder has rejected as too short: its position stays at or before the
\* record
ShortSliceNotSkipped ==
    \A id \in 1 .. Len(records) :
       (records[id].status = "committed" /\ records[id].kind = "Err")
          => rb.consumer_pos_value <= records[id].pos

\* C28: a connection event of a pid without alias changes nothing; an
\* outgoing connection of an aliased pid is registered in the tracked map,
\* with on_connect(incoming = false) as the last call, exactly when its port
\* is 8302, an incoming one, with on_connect(incoming = true), exactly when
\* its port is 8302 or at least 49152; every other connection of an aliased
\* pid goes to the ignored map, makes no call and leaves the tracked map and
\* the pipelines alone
ConnectionClassified ==
    [][ \A pid \in Pids, fd \in Fds, addr \in Addrs, incoming \in BOOLEAN :
          ( /\ MoreEvents
            /\ IF incoming THEN IncomingConnection(pid, fd, addr)
               ELSE OutgoingConnection(pid, fd, addr) )
          => IF pid \notin DOMAIN apps
             THEN UNCHANGED <<apps, p2p_cns, ignored_cns, recorder, calls>>
             ELSE IF addr.port = 8302 \/ (incoming /\ addr.port >= 49152)
             THEN /\ <<pid, fd>> \in DOMAIN p2p_cns'
                  /\ p2p_cns'[<<pid, fd>>] = addr
                  /\ Len(calls') > Len(calls)
                  /\ calls'[Len(calls')].op = "on_connect"
                  /\ calls'[Len(calls')].incoming = incoming
                  /\ calls'[Len(calls')].pid = pid
                  /\ calls'[Len(calls')].fd = fd
                  /\ calls'[Len(calls')].addr = addr
                  /\ \A i \in Len(calls) + 1 .. Len(calls') - 1 : calls'[i].op # "on_connect"
                  /\ ignored_cns' = ignored_cns
             ELSE /\ <<pid, fd>> \in DOMAIN ignored_cns'
                  /\ ignored_cns'[<<pid, fd>>] = addr
                  /\ calls' = calls
                  /\ p2p_cns' = p2p_cns
                  /\ recorder' = recorder ]_vars

\* an incoming connection from an ephemeral port has been registered and an
\* outgoing connection to an ephemeral port has been put in the ignored map,
\* while a pid without alias has no entry in either map
EphemeralTrackedAndIgnored ==
    /\ \E i \in 1 .. Len(calls) :
          calls[i].op = "on_connect" /\ calls[i].incoming /\ calls[i].addr.port = 49152
    /\ \E key \in DOMAIN ignored_cns : ignored_cns[key].port = 49152
    /\ \E pid \in Pids : pid \notin DOMAIN apps

\* C29: a Disconnected event for a tracked (pid, fd) removes the key from the
\* tracked map, makes exactly one call, on_disconnect with the registered
\* address, and leaves no pipeline under the id the connection was registered
\* with; for any other key it makes no call and leaves the tracked map and
\* the pipelines alone
DisconnectTearsDown ==
    [][ \A pid \in Pids, fd \in Fds :
          (MoreEvents /\ Disconnected(pid, fd))
          => IF <<pid, fd>> \in DOMAIN p2p_cns
             THEN LET s == KeyCalls(pid, fd)
                      registered == s[Len(s)]
                  IN  /\ <<pid, fd>> \notin DOMAIN p2p_cns'
                      /\ Len(calls') = Len(calls) + 1
                      /\ SubSeq(calls', 1, Len(calls)) = calls
                      /\ calls'[Len(calls')].op = "on_disconnect"
                      /\ calls'[Len(calls')].pid = pid
                      /\ calls'[Len(calls')].fd = fd
                      /\ calls'[Len(calls')].addr = p2p_cns[<<pid, fd>>]
                      /\ registered.op = "on_connect"
                      /\ ConnectionId(registered.alias, registered.addr, registered.fd)
                            \notin DOMAIN recorder'.cns
             ELSE /\ calls' = calls
                  /\ p2p_cns' = p2p_cns
                  /\ recorder' = recorder ]_vars

\* C30: a Read or Write event for a tracked (pid, fd) appends its payload,
\* with incoming = true for Read and false for Write, to the pipeline
\* registered for that connection and changes no other pipeline; for a key
\* that is not tracked it changes nothing
DataReachesRegisteredPipeline ==
    [][ \A pid \in Pids, fd \in Fds, data \in DataSamples, incoming \in BOOLEAN :
          (MoreEvents /\ DataEvent(incoming, pid, fd, data))
          => IF <<pid, fd>> \in DOMAIN p2p_cns
             THEN LET s == KeyCalls(pid, fd)
                      registered == s[Len(s)]
                      id == ConnectionId(registered.alias, registered.addr, registered.fd)
                  IN  /\ registered.op = "on_connect"
                      /\ id \in DOMAIN recorder.cns
                      /\ DOMAIN recorder'.cns = DOMAIN recorder.cns
                      /\ recorder'.cns[id] =
                            Append(recorder.cns[id], [incoming |-> incoming, bytes |-> data])
                      /\ \A other \in DOMAIN recorder.cns \ {id} :
                            recorder'.cns[other] = recorder.cns[other]
                      /\ p2p_cns' = p2p_cns
             ELSE UNCHANGED <<apps, p2p_cns, ignored_cns, recorder, calls>> ]_vars

\* the on_randomness calls, oldest first: the k-th one pushed the k-th sample
RandomCalls == SelectSeq(calls, LAMBDA c : c.op = "on_randomness")

\* C31: the samples offered to a connection are, newest first, the samples
\* recorded for the alias of that connection: no sample recorded for another
\* alias is among them
RandomnessScopedToAlias ==
    \A id \in DOMAIN recorder.cns :
       LET mine == SelectSeq(RandomCalls, LAMBDA c : c.alias = id[1])
       IN  /\ Len(Offered(recorder, id)) = Len(mine)
           /\ \A k \in 1 .. Len(mine) :
                 Offered(recorder, id)[k] = recorder.cx.randomness[Len(mine) + 1 - k]

\* C32: no (pid, fd) is in the tracked map and in the ignored map at the
\* same time
NeverTrackedAndIgnored ==
    DOMAIN p2p_cns \cap DOMAIN ignored_cns = {}

\* C33: every pipeline of the recorder belongs to a tracked (pid, fd): the
\* key's fd and registered address are those of the pipeline's id, so that
\* no pipeline outlives the disconnect of its connection
NoPipelineOutlivesDisconnect ==
    \A id \in DOMAIN recorder.cns :
       \E key \in DOMAIN p2p_cns : key[2] = id[3] /\ p2p_cns[key] = id[2]

\* the id under which the live connection of a tracked (pid, fd) was
\* registered: that of its last on_connect call
RegisteredId(pid, fd) ==
    LET s == KeyCalls(pid, fd)
    IN  ConnectionId(s[Len(s)].alias, s[Len(s)].addr, s[Len(s)].fd)

\* C34: two live connections of different pids are registered under
\* different pipeline ids, also when alias, remote address and fd are equal
DistinctPidsDistinctPipelines ==
    \A k1 \in DOMAIN p2p_cns, k2 \in DOMAIN p2p_cns :
       k1[1] # k2[1] => RegisteredId(k1[1], k1[2]) # RegisteredId(k2[1], k2[2])

\* C35: a socket id enters the live-socket map only in a step that puts the
\* Connect or Accept event of that (pid, fd) into the ring
LiveOnlyIfEventCommitted ==
    [][ \A id \in DOMAIN connections' \ DOMAIN connections :
          \E i \in 1 .. Len(event_queue') :
             /\ event_queue'[i].event.tag \in {"Connect", "Accept"}
             /\ SocketId(event_queue'[i].event.fd, event_queue'[i].event.pid) = id ]_vars

\* C36: after an execve whose environment has no entry that begins with
\* BPF_ALIAS the pid is not in the tracked set
ExecveWithoutAliasUntracks ==
    ( /\ last_handler.handler = "execve"
      /\ \/ ~IsSome(last_handler.call.mem)
         \/ \A i \in 1 .. Len(Unwrap(last_handler.call.mem)) :
               ~StartsWith(Unwrap(last_handler.call.mem)[i], BPF_ALIAS) )
    => ~( /\ last_handler.thread.pid \in DOMAIN pid_flags
          /\ pid_flags[last_handler.thread.pid] = TRACKED )

\* C37: the poll that follows a poll that reported agreement on a protocol
\* reports agreement on the same protocol, emits no token, and leaves the
\* proposal and the simultaneous-connect flag of both directions as they were
AgreementStable ==
    [][ ( /\ last.called
          /\ IsSome(last.output.agreed)
          /\ Len(pending') < Len(pending) )
        => /\ last'.called
           /\ IsSome(last'.output.agreed)
           /\ Unwrap(last'.output.agreed).protocol = Unwrap(last.output.agreed).protocol
           /\ last'.output.tokens = <<>>
           /\ last'.output.error = None
           /\ state'.hl.incoming.done = state.hl.incoming.done
           /\ state'.hl.outgoing.done = state.hl.outgoing.done
           /\ state'.hl.incoming.simultaneous_connect = state.hl.incoming.simultaneous_connect
           /\ state'.hl.outgoing.simultaneous_connect = state.hl.outgoing.simultaneous_connect ]_vars

\* the last poll reported agreement while the inner layer already held bytes
\* that an earlier poll had forwarded, and the chunk of the last poll was a
\* complete "na" message
AgreedAgainOnNa ==
    /\ last.called
    /\ IsSome(last.output.agreed)
    /\ last.chunk = NA_FRAME
    /\ IsSome(state.inner)
    /\ Len(Unwrap(state.inner).incoming) + Len(Unwrap(state.inner).outgoing)
          > Len(Unwrap(last.output.agreed).data)

\* C38: once the termination flag is set the capture loop reaches its
\* terminated state (or the process has exited)
TerminationReached ==
    terminating ~> (pc \in {"terminated", "exited"})

\* the end of some reserved record (or the start of the ring)
RecordBoundary(p) ==
    p = 0 \/ \E i \in 1 .. Len(records) : records[i].pos + RecordSize(records[i].length) = p

\* every record that starts below p has been left by the producer and, if it
\* was submitted, has been handed to from_rb_slice
DecodedBelow(p) ==
    \A i \in 1 .. Len(records) :
        records[i].pos < p =>
            /\ records[i].status # "busy"
            /\ records[i].status = "committed" => \E k \in 1 .. Len(decoded) : decoded[k] = i

PositionsInOrder ==
    /\ consumer_pos <= rb.consumer_pos_value
    /\ rb.consumer_pos_value <= producer_pos
    /\ consumer_pos % 8 = 0
    /\ rb.consumer_pos_value % 8 = 0
    /\ RecordBoundary(consumer_pos)
    /\ DecodedBelow(consumer_pos)

PositionsAdvance ==
    /\ consumer_pos' >= consumer_pos
    /\ rb'.consumer_pos_value >= rb.consumer_pos_value

\* C39: with a well-formed producer the shared consumer position is at most the
\* local one, which is at most the producer position; both are multiples of 8
\* and never decrease; the shared position is a record boundary below which
\* every submitted record has been decoded
ConsumerPositionsSound ==
    []PositionsInOrder /\ [][PositionsAdvance]_vars

PartlyConsumed ==
    /\ consumer_pos > 0
    /\ producer_pos > consumer_pos
    /\ \E i \in 1 .. Len(records) : records[i].status = "discarded" /\ records[i].pos < consumer_pos
    /\ \E i \in 1 .. Len(records) : records[i].status = "committed" /\ records[i].pos < consumer_pos
    /\ \E i \in 1 .. Len(records) : records[i].status = "busy"

\* no DbStream::add call is between its first and its last step
AddsCompleted == \A stream \in DbStreams : adds[stream].pc = "idle"

\* C40: every message gets a MessageId of its own, and once no add call is in
\* flight the stored MESSAGES_CNT is not smaller than the largest MessageId
\* handed out
MessageIdsCounted ==
    /\ \A i, j \in 1 .. Len(assigned) : assigned[i] = assigned[j] => i = j
    /\ AddsCompleted => \A i \in 1 .. Len(assigned) : total >= assigned[i]

====
